---- MODULE Spec2Model ----
(***************************************************************************)
(* The Hotones ECS core: Entity.hpp (packed handles), ComponentPool.hpp    *)
(* (sparse-set storage) and Registry.hpp (slot table, component API,       *)
(* View / Each queries).                                                   *)
(*                                                                         *)
(* Conventions.                                                            *)
(*  - C++ vectors are 0-based; a vector v is the sequence whose element    *)
(*    v[i] is written v[i + 1].                                            *)
(*  - An EntityId is a uint32_t.  TLC integers are 32-bit signed, so a     *)
(*    uint32_t that can exceed 2^31 - 1 is kept as its two 16-bit halves   *)
(*    <<hi, lo>>; the packing arithmetic is done on the halves.            *)
(*  - assert(...) is compiled in or out by the build (NDEBUG).  A failed   *)
(*    assertion therefore either aborts the program at that point, or is   *)
(*    not evaluated and the code after it runs.  Both outcomes are taken.  *)
(***************************************************************************)
EXTENDS Integers, Sequences, FiniteSets, TLC

-----------------------------------------------------------------------------
(* Bounds of the model *)

\* Largest number of slots the slot table grows to.
MaxSlots == 3
\* Largest number of distinct handles CreateEntity hands out in one behaviour.
MaxHandles == 4
\* Largest number of Registry calls the visitor makes during one View / Each.
MaxVisitorCalls == 3
\* Largest number of distinct handles handed out where the visitor calls the API.
MaxVisitorHandles == 3
\* Largest number of handles handed out where the const methods are called too.
MaxFrameHandles == 3
\* Create/destroy cycles slot 0 may already have gone through when the
\* behaviour starts (the other start is a freshly constructed Registry).
PriorCycles == 4094

Types == {"Position", "Velocity"}

-----------------------------------------------------------------------------
(* Entity.hpp *)

INDEX_BITS == 20
GEN_BITS == 12
Half == 2 ^ 16
\* (1u << INDEX_BITS) - 1u
INDEX_MASK == 2 ^ INDEX_BITS - 1
\* (1u << GEN_BITS) - 1u
GEN_MASK == 2 ^ GEN_BITS - 1

\* x & mask for a mask of the form 2^n - 1
BitAnd(x, mask) == x % (mask + 1)

\* std::numeric_limits<uint32_t>::max()
INVALID_ENTITY == <<Half - 1, Half - 1>>

\* id & INDEX_MASK: the low INDEX_BITS - 16 bits of the high half, then the
\* low half
EntityIndex(id) == BitAnd(id[1], 2 ^ (INDEX_BITS - 16) - 1) * Half + id[2]

\* (id >> INDEX_BITS) & GEN_MASK
EntityGeneration(id) == BitAnd(id[1] \div (2 ^ (INDEX_BITS - 16)), GEN_MASK)

\* MakeEntity with the index not masked.
MakeEntity_NoIndexMask(idx, gen) ==
    LET g == BitAnd(gen, GEN_MASK)
    IN  <<g * (2 ^ (INDEX_BITS - 16)) + (idx \div Half), idx % Half>>

\* ((gen & GEN_MASK) << INDEX_BITS) | (idx & INDEX_MASK)
MakeEntity(idx, gen) ==
    LET g == BitAnd(gen, GEN_MASK)
        i == BitAnd(idx, INDEX_MASK)
    IN  <<g * (2 ^ (INDEX_BITS - 16)) + (i \div Half), i % Half>>

-----------------------------------------------------------------------------
(* ComponentPool.hpp *)

\* ~0u, the all-ones uint32_t, written as the 32-bit signed integer with
\* the same bit pattern.
EMPTY == -1

\* A default-constructed ComponentPool<T>.
NewPool == [sparse |-> <<>>, dense |-> <<>>, data |-> <<>>]

\* Has with the bound compared one too low: the last sparse entry is never
\* looked at.
Has_OffByOne(p, entityIdx) ==
    /\ entityIdx + 1 < Len(p.sparse)
    /\ p.sparse[entityIdx + 1] # EMPTY

Has(p, entityIdx) ==
    /\ entityIdx < Len(p.sparse)
    /\ p.sparse[entityIdx + 1] # EMPTY

Size(p) == Len(p.dense)

EntityIndices(p) == p.dense

pop_back(v) == SubSeq(v, 1, Len(v) - 1)

\* Remove that forgets m_sparse[lastEntityIdx] = denseIdx.
Remove_StaleSparse(p, entityIdx) ==
    IF ~(entityIdx < Len(p.sparse) /\ p.sparse[entityIdx + 1] # EMPTY) THEN p
    ELSE
      LET denseIdx == p.sparse[entityIdx + 1]
          last == Len(p.dense) - 1
          lastEntityIdx == p.dense[last + 1]
          swapped ==
              IF denseIdx # last
              THEN [sparse |-> p.sparse,
                    dense  |-> [p.dense EXCEPT ![denseIdx + 1] = lastEntityIdx],
                    data   |-> [p.data EXCEPT ![denseIdx + 1] = p.data[last + 1]]]
              ELSE p
      IN  [sparse |-> [swapped.sparse EXCEPT ![entityIdx + 1] = EMPTY],
           dense  |-> SubSeq(swapped.dense, 1, Len(swapped.dense) - 1),
           data   |-> SubSeq(swapped.data, 1, Len(swapped.data) - 1)]

\* Remove that forgets m_data[denseIdx] = std::move(m_data[last]).
Remove_KeepData(p, entityIdx) ==
    IF ~(entityIdx < Len(p.sparse) /\ p.sparse[entityIdx + 1] # EMPTY) THEN p
    ELSE
      LET denseIdx == p.sparse[entityIdx + 1]
          last == Len(p.dense) - 1
          lastEntityIdx == p.dense[last + 1]
          swapped ==
              IF denseIdx # last
              THEN [sparse |-> [p.sparse EXCEPT ![lastEntityIdx + 1] = denseIdx],
                    dense  |-> [p.dense EXCEPT ![denseIdx + 1] = lastEntityIdx],
                    data   |-> p.data]
              ELSE p
      IN  [sparse |-> [swapped.sparse EXCEPT ![entityIdx + 1] = EMPTY],
           dense  |-> SubSeq(swapped.dense, 1, Len(swapped.dense) - 1),
           data   |-> SubSeq(swapped.data, 1, Len(swapped.data) - 1)]

\* Remove that pops the last element without moving it to the freed position.
Remove_PopOnly(p, entityIdx) ==
    IF ~(entityIdx < Len(p.sparse) /\ p.sparse[entityIdx + 1] # EMPTY) THEN p
    ELSE [sparse |-> [p.sparse EXCEPT ![entityIdx + 1] = EMPTY],
          dense  |-> SubSeq(p.dense, 1, Len(p.dense) - 1),
          data   |-> SubSeq(p.data, 1, Len(p.data) - 1)]

Remove(p, entityIdx) ==
    IF ~Has(p, entityIdx) THEN p
    ELSE
      LET denseIdx == p.sparse[entityIdx + 1]
          last == Len(p.dense) - 1
          lastEntityIdx == p.dense[last + 1]
          swapped ==
              IF denseIdx # last
              THEN [sparse |-> [p.sparse EXCEPT ![lastEntityIdx + 1] = denseIdx],
                    dense  |-> [p.dense EXCEPT ![denseIdx + 1] = lastEntityIdx],
                    data   |-> [p.data EXCEPT ![denseIdx + 1] = p.data[last + 1]]]
              ELSE p
      IN  [sparse |-> [swapped.sparse EXCEPT ![entityIdx + 1] = EMPTY],
           dense  |-> pop_back(swapped.dense),
           data   |-> pop_back(swapped.data)]

PoolClear(p) == [sparse |-> <<>>, dense |-> <<>>, data |-> <<>>]

\* A resize that grows the table by entityIdx + 1 on every call.
Resize_Unguarded(p, entityIdx) ==
    [p EXCEPT !.sparse = p.sparse \o [k \in 1..(entityIdx + 1) |-> EMPTY]]

\* m_sparse.resize(entityIdx + 1, EMPTY) when entityIdx >= m_sparse.size()
Resize(p, entityIdx) ==
    IF entityIdx >= Len(p.sparse)
    THEN [p EXCEPT !.sparse =
             p.sparse \o [k \in 1..(entityIdx + 1 - Len(p.sparse)) |-> EMPTY]]
    ELSE p

\* The part of Emplace after its assertion.
Emplace(p, entityIdx, v) ==
    LET q == Resize(p, entityIdx)
        denseIdx == Len(q.dense)
    IN  [sparse |-> [q.sparse EXCEPT ![entityIdx + 1] = denseIdx],
         dense  |-> Append(q.dense, entityIdx),
         data   |-> Append(q.data, v)]

\* m_data[m_sparse[entityIdx]]
Get(p, entityIdx) == p.data[p.sparse[entityIdx + 1] + 1]

-----------------------------------------------------------------------------
(* Registry.hpp: storage *)

VARIABLES
    generations,  \* m_generations
    freeList,     \* m_freeList (front is the head of the sequence)
    alive,        \* m_alive
    pools,        \* m_pools: component type -> pool, for the pools that exist
    q,            \* the View / Each call in progress, if any
    fault,        \* "none", or the first assertion whose condition was false
    aborted,      \* TRUE once a failed assertion has aborted the program
    issued,       \* history: every handle CreateEntity has returned
    destroyed,    \* history: handles destroyed while alive since the last Clear
    owned,        \* history: <<T, h, v>> for each component v of type T given
                  \* to the entity h and not taken away since
    g_registry,   \* LuaLibraries/ECS.cpp: the Registry the ecs.* bindings use
    g_ecsPlayer,  \* LuaLibraries/ECS.cpp: the engine Player of ecs.addPlayer
    toDestroy,    \* ScriptedScene::Update: the handles collected for destruction
    frame,        \* ScriptedScene::Update: where the call stands
    dt,           \* ScriptedScene::Update: const float dt = GetFrameTime()
    next          \* ScriptedScene::Update: elements of toDestroy the for loop has passed

vars == <<generations, freeList, alive, pools, q, fault, aborted,
          issued, destroyed, owned, g_registry, g_ecsPlayer, toDestroy, frame,
          dt, next>>

\* The state of the scene and of its script bindings.
scene == <<g_registry, g_ecsPlayer, toDestroy, frame, dt, next>>

\* The Registry's members as one value.
Reg == [generations |-> generations, freeList |-> freeList,
        alive |-> alive, pools |-> pools]

Range(s) == {s[k] : k \in DOMAIN s}

\* IsAlive that compares the index only.
IsAliveIn_NoGeneration(r, id) == EntityIndex(id) < Len(r.generations)

IsAliveIn(r, id) ==
    LET idx == EntityIndex(id)
    IN  /\ idx < Len(r.generations)
        /\ EntityGeneration(id) = r.generations[idx + 1]

IsAlive(id) == IsAliveIn(Reg, id)

\* PoolPtr<T>() != nullptr
PoolPtr(r, T) == T \in DOMAIN r.pools

\* Pool<T>(): the pool map once the pool for T has been created if missing
Pool(r, T) ==
    IF PoolPtr(r, T) THEN r.pools
    ELSE [t \in DOMAIN r.pools \cup {T} |-> IF t = T THEN NewPool ELSE r.pools[t]]

\* HasComponent that stops at the pool lookup.
HasComponentIn_PoolOnly(r, T, id) == PoolPtr(r, T)

HasComponentIn(r, T, id) == PoolPtr(r, T) /\ Has(r.pools[T], EntityIndex(id))

HasComponent(T, id) == HasComponentIn(Reg, T, id)

\* std::find: the position of the first occurrence of x in s[lo..hi], which
\* holds one.  Found by halving, so that a list of 2^INDEX_BITS handles is
\* searched in a number of steps proportional to its length.
RECURSIVE FirstIn(_, _, _, _)
FirstIn(s, x, lo, hi) ==
    IF lo = hi THEN lo
    ELSE LET mid == (lo + hi) \div 2
         IN  IF SelectSeq(SubSeq(s, lo, mid), LAMBDA y : y = x) # <<>>
             THEN FirstIn(s, x, lo, mid)
             ELSE FirstIn(s, x, mid + 1, hi)

\* std::find followed by erase: drops the first occurrence of x
EraseFirst(s, x) ==
    IF SelectSeq(s, LAMBDA y : y = x) = <<>> THEN s
    ELSE LET k == FirstIn(s, x, 1, Len(s))
         IN  SubSeq(s, 1, k - 1) \o SubSeq(s, k + 1, Len(s))

\* CreateEntity: the Registry after the call, and the handle returned
CreateEntityOp(r) ==
    LET reuse == r.freeList # <<>>
        idx == IF reuse THEN Head(r.freeList) ELSE Len(r.generations)
        gens == IF reuse THEN r.generations ELSE Append(r.generations, 0)
        id == MakeEntity(idx, gens[idx + 1])
    IN  [reg |-> [r EXCEPT !.freeList = IF reuse THEN Tail(r.freeList) ELSE r.freeList,
                           !.generations = gens,
                           !.alive = Append(r.alive, id)],
         id |-> id]

\* DestroyEntity that forgets ++m_generations[idx].
DestroyEntityOp_NoBump(r, id) ==
    IF ~IsAliveIn(r, id) THEN r
    ELSE LET idx == EntityIndex(id)
         IN  [pools |-> [t \in DOMAIN r.pools |-> Remove(r.pools[t], idx)],
              generations |-> r.generations,
              freeList |-> Append(r.freeList, idx),
              alive |-> EraseFirst(r.alive, id)]

\* DestroyEntity: the Registry after the call
DestroyEntityOp(r, id) ==
    IF ~IsAliveIn(r, id) THEN r
    ELSE LET idx == EntityIndex(id)
         IN  [pools |-> [t \in DOMAIN r.pools |-> Remove(r.pools[t], idx)],
              generations |-> [r.generations EXCEPT ![idx + 1] = @ + 1],
              freeList |-> Append(r.freeList, idx),
              alive |-> EraseFirst(r.alive, id)]

\* Clear that leaves the pools as they are.
ClearOp_KeepPools(r) ==
    [alive |-> <<>>, generations |-> <<>>, freeList |-> <<>>,
     pools |-> r.pools]

\* Registry::Clear: the Registry after the call
ClearOp(r) ==
    [alive |-> <<>>, generations |-> <<>>, freeList |-> <<>>,
     pools |-> [t \in DOMAIN r.pools |-> PoolClear(r.pools[t])]]

\* RemoveComponent that strips the entity from every pool, as DestroyEntity
\* does.
RemoveComponentOp_AllPools(r, T, id) ==
    [r EXCEPT !.pools = [t \in DOMAIN r.pools |-> Remove(r.pools[t], EntityIndex(id))]]

\* RemoveComponent<T>: the Registry after the call
RemoveComponentOp(r, T, id) ==
    IF PoolPtr(r, T)
    THEN [r EXCEPT !.pools[T] = Remove(r.pools[T], EntityIndex(id))]
    ELSE r

\* HasAt that forgets to compare the sparse entry with EMPTY.
HasAt_NoEmpty(r, T, idx) == PoolPtr(r, T) /\ idx < Len(r.pools[T].sparse)

HasAt(r, T, idx) == PoolPtr(r, T) /\ Has(r.pools[T], idx)

\* HasAllAt that folds with || instead of &&.
HasAllAt_Any(r, Ts, idx) ==
    \E k \in DOMAIN Ts : PoolPtr(r, Ts[k]) /\ Has(r.pools[Ts[k]], idx)

\* True if entity index idx has every component type in Ts.
HasAllAt(r, Ts, idx) == \A k \in DOMAIN Ts : HasAt(r, Ts[k], idx)

\* The first pool of fewest components among those of Ts, as its position
\* in Ts; 0 (nullptr) if any pool is missing.
RECURSIVE SmallestFrom_SkipMissing(_, _, _, _, _)
\* A search that passes over a missing pool instead of giving up.
SmallestFrom_SkipMissing(r, Ts, k, result, minSize) ==
    IF k > Len(Ts) THEN result
    ELSE IF ~PoolPtr(r, Ts[k])
         THEN SmallestFrom_SkipMissing(r, Ts, k + 1, result, minSize)
    ELSE IF minSize < 0 \/ Size(r.pools[Ts[k]]) < minSize
         THEN SmallestFrom_SkipMissing(r, Ts, k + 1, k, Size(r.pools[Ts[k]]))
         ELSE SmallestFrom_SkipMissing(r, Ts, k + 1, result, minSize)

RECURSIVE SmallestFrom(_, _, _, _, _)
SmallestFrom(r, Ts, k, result, minSize) ==
    IF k > Len(Ts) THEN result
    ELSE IF ~PoolPtr(r, Ts[k]) THEN 0
    ELSE IF minSize < 0 \/ Size(r.pools[Ts[k]]) < minSize
         THEN SmallestFrom(r, Ts, k + 1, k, Size(r.pools[Ts[k]]))
         ELSE SmallestFrom(r, Ts, k + 1, result, minSize)

\* minSize starts at ~size_t(0), larger than every pool size: it is passed
\* as -1 and read as "no pool seen yet".
FindSmallestPool(r, Ts) == SmallestFrom(r, Ts, 1, 0, -1)

-----------------------------------------------------------------------------
(* The call in progress *)

\* kind, Ts: the query and its component types; src: the type whose pool
\* drives the loop ("" if the query returned before its loop); idxList: the
\* copy of that pool's dense list; pos: the loop's position in it;
\* inCallback: fn is running.  The rest is history: snapIds, the handle each
\* snapshot index stood for when copied; log, what the loop did at each
\* position so far; calls, the Registry calls fn has made; created, the
\* handles fn got from CreateEntity; freed / stripped, the snapshot indices
\* whose entity fn destroyed / took a queried component from before its turn.
Idle == [kind |-> "none", Ts |-> <<>>, src |-> "", idxList |-> <<>>, pos |-> 0,
         inCallback |-> FALSE, log |-> <<>>, snapIds |-> <<>>,
         calls |-> 0, created |-> {}, freed |-> {}, stripped |-> {}]

\* Registry calls are made by the program between queries, or by the visitor
\* while it runs.
\* The model follows the program up to the first false assertion: it takes
\* the abort, or the step made with the assertion compiled out, and stops.
Running == fault = "none"
TopLevel == q.kind = "none"
InVisitor == q.kind # "none" /\ q.inCallback
CanCall == Running /\ (TopLevel \/ (InVisitor /\ q.calls < MaxVisitorCalls))

\* Handles a caller can hold: issued ones, the sentinel, and one never issued.
HandleInputs == issued \cup {INVALID_ENTITY, MakeEntity(MaxSlots, 1)}

\* The component value a caller gives to the entity h: one per handle, so
\* that a value tells whose it is.
Payload(h) == EntityGeneration(h) * (MaxSlots + 1) + EntityIndex(h)

\* What an out-of-bounds read of m_data can yield.
Garbage == {Payload(h) : h \in HandleInputs}

\* Entity indices a caller of the pool's own interface passes.
IndexInputs == 0..(MaxSlots - 1)

SetReg(r) ==
    /\ generations' = r.generations
    /\ freeList' = r.freeList
    /\ alive' = r.alive
    /\ pools' = r.pools

\* Snapshot indices whose turn has not come yet.
Pending == {q.idxList[k] : k \in (q.pos + 2)..Len(q.idxList)}

\* History of the query in progress: fn has made a Registry call that
\* returned newHandles, destroyed the entities at the indices freed and took
\* a queried component from the entities at the indices stripped.
Touched(newHandles, freed, stripped) ==
    IF InVisitor
    THEN [q EXCEPT !.calls = @ + 1,
                   !.created = @ \cup newHandles,
                   !.freed = @ \cup (freed \cap Pending),
                   !.stripped = @ \cup (stripped \cap Pending)]
    ELSE q

-----------------------------------------------------------------------------
(* Registry.hpp: entity lifecycle *)

\* The Registry after k create/destroy cycles of slot 0 (k = 0: as
\* constructed).  Of the handles issued so far the history keeps the first
\* and the last.
Start(k) ==
        /\ generations = IF k = 0 THEN <<>> ELSE <<k>>
        /\ freeList = IF k = 0 THEN <<>> ELSE <<0>>
        /\ alive = <<>>
        /\ pools = [t \in {} |-> NewPool]
        /\ q = Idle
        /\ fault = "none"
        /\ aborted = FALSE
        /\ issued = IF k = 0 THEN {} ELSE {MakeEntity(0, 0), MakeEntity(0, k - 1)}
        /\ destroyed = IF k = 0 THEN {} ELSE {MakeEntity(0, 0), MakeEntity(0, k - 1)}
        /\ owned = {}
        /\ g_registry = "nullptr"
        /\ g_ecsPlayer = "nullptr"
        /\ toDestroy = <<>>
        /\ frame = "idle"
        /\ dt = 0
        /\ next = 0

Init == Start(0)

InitRecycled == \E k \in {0, PriorCycles} : Start(k)

CreateEntity ==
    /\ CanCall
    /\ LET res == CreateEntityOp(Reg)
       IN  /\ freeList # <<>> \/ Len(generations) < MaxSlots
           /\ res.id \in issued \/ Cardinality(issued) < MaxHandles
           /\ SetReg(res.reg)
           /\ issued' = issued \cup {res.id}
           /\ q' = Touched({res.id}, {}, {})
    /\ UNCHANGED <<scene, fault, aborted, destroyed, owned>>

DestroyEntity(id) ==
    /\ CanCall
    /\ SetReg(DestroyEntityOp(Reg, id))
    /\ destroyed' = IF IsAlive(id) THEN destroyed \cup {id} ELSE destroyed
    /\ owned' = IF IsAlive(id) THEN {c \in owned : c[2] # id} ELSE owned
    /\ q' = Touched({}, IF IsAlive(id) THEN {EntityIndex(id)} ELSE {}, {})
    /\ UNCHANGED <<scene, fault, aborted, issued>>

Clear ==
    /\ CanCall
    /\ SetReg(ClearOp(Reg))
    /\ destroyed' = {}
    /\ owned' = {}
    /\ q' = Touched({}, {EntityIndex(h) : h \in {a \in Range(alive) : IsAlive(a)}}, {})
    /\ UNCHANGED <<scene, fault, aborted, issued>>

-----------------------------------------------------------------------------
(* Registry.hpp: component API *)

FirstFault(name) == IF fault = "none" THEN name ELSE fault

GetFault == "Get: entity does not own this component"

\* AddComponent<T>(id, v): assert(IsAlive(id)); Pool<T>() creates the pool if
\* it is missing; Emplace resizes m_sparse, then assert(!Has(idx)), then
\* stores.  A false assertion aborts where it stands (assertions compiled
\* in) or is skipped (NDEBUG).
AddComponent(T, id, v) ==
    LET idx == EntityIndex(id)
        withPool == [Reg EXCEPT !.pools = Pool(Reg, T)]
        resized == [withPool EXCEPT !.pools[T] = Resize(@, idx)]
        stored == [withPool EXCEPT !.pools[T] = Emplace(@, idx, v)]
        notAlive == ~IsAlive(id)
        alreadyOwns == Has(resized.pools[T], idx)
        finish == /\ SetReg(stored)
                  /\ owned' = owned \cup {<<T, id, v>>}
                  /\ aborted' = FALSE
    IN  /\ CanCall
        /\ q' = Touched({}, {}, {})
            /\ UNCHANGED <<scene, issued, destroyed>>
        /\ IF notAlive
           THEN /\ fault' = FirstFault("AddComponent: entity is not alive")
                /\ \/ /\ aborted' = TRUE
                      /\ UNCHANGED <<generations, freeList, alive, pools, owned>>
                   \/ finish
           ELSE IF alreadyOwns
           THEN /\ fault' = FirstFault("Emplace: entity already owns this component")
                /\ \/ /\ aborted' = TRUE
                      /\ SetReg(resized)
                      /\ UNCHANGED owned
                   \/ finish
           ELSE /\ fault' = fault
                /\ finish

\* The value of a default-constructed component, T{}: none that Payload gives.
DefaultT == -2

\* GetOrAdd<T>(id): if (!HasComponent<T>(id)) AddComponent<T>(id); then
\* GetComponent<T>(id), which asserts IsAlive(id) and HasComponent<T>(id)
\* before Pool<T>().Get asserts Has.  After AddComponent has stored, or
\* failed, GetComponent adds nothing to the outcome.
GetOrAdd(T, id) ==
    IF ~HasComponent(T, id) THEN AddComponent(T, id, DefaultT)
    ELSE /\ CanCall
         /\ q' = Touched({}, {}, {})
         /\ IF ~IsAlive(id)
            THEN /\ fault' = FirstFault("GetComponent: entity is not alive")
                 /\ aborted' \in BOOLEAN
            ELSE IF ~Has(pools[T], EntityIndex(id))
            THEN /\ fault' = FirstFault(GetFault)
                 /\ aborted' \in BOOLEAN
            ELSE UNCHANGED <<fault, aborted>>
         /\ UNCHANGED <<scene, generations, freeList, alive, pools,
                        issued, destroyed, owned>>

RemoveComponent(T, id) ==
    /\ CanCall
    /\ SetReg(RemoveComponentOp(Reg, T, id))
    /\ owned' = {c \in owned : ~(c[1] = T /\ EntityIndex(c[2]) = EntityIndex(id))}
    /\ q' = Touched({}, {},
                    IF T \in Range(q.Ts) /\ HasComponent(T, id)
                    THEN {EntityIndex(id)} ELSE {})
    /\ UNCHANGED <<scene, fault, aborted, issued, destroyed>>

-----------------------------------------------------------------------------
(* Registry.hpp: View and Each *)

\* The handle each snapshot index stood for when the snapshot was taken.
SnapIds(idxList) ==
    [k \in DOMAIN idxList |->
        IF idxList[k] < Len(generations)
        THEN MakeEntity(idxList[k], generations[idxList[k] + 1])
        ELSE INVALID_ENTITY]

StartQuery(kind, Ts, src, idxList) ==
    q' = [Idle EXCEPT !.kind = kind, !.Ts = Ts, !.src = src,
                      !.idxList = idxList, !.snapIds = SnapIds(idxList)]

\* What Each<T> iterates over: nothing (src "") if the pool is missing or
\* empty, else a copy of the pool's dense index list.
EachSnapshot(r, T) ==
    IF ~PoolPtr(r, T) \/ Size(r.pools[T]) = 0
    THEN [src |-> "", idxList |-> <<>>]
    ELSE [src |-> T, idxList |-> EntityIndices(r.pools[T])]

\* What View<Ts...> iterates over: nothing if a pool is missing or the
\* smallest is empty, else a copy of the smallest pool's dense index list.
ViewSnapshot(r, Ts) ==
    LET smallest == FindSmallestPool(r, Ts)
    IN  IF smallest = 0 \/ Size(r.pools[Ts[smallest]]) = 0
        THEN [src |-> "", idxList |-> <<>>]
        ELSE [src |-> Ts[smallest],
              idxList |-> EntityIndices(r.pools[Ts[smallest]])]

\* Each<T>(fn) up to its loop.
EachBegin(T) ==
    /\ Running
    /\ q.kind = "none"
    /\ LET snap == EachSnapshot(Reg, T)
       IN  StartQuery("Each", <<T>>, snap.src, snap.idxList)
    /\ UNCHANGED <<scene, generations, freeList, alive, pools, fault, aborted,
                   issued, destroyed, owned>>

\* View<Ts...>(fn) up to its loop.
ViewBegin(Ts) ==
    /\ Running
    /\ q.kind = "none"
    /\ LET snap == ViewSnapshot(Reg, Ts)
       IN  StartQuery("View", Ts, snap.src, snap.idxList)
    /\ UNCHANGED <<scene, generations, freeList, alive, pools, fault, aborted,
                   issued, destroyed, owned>>

\* const auto& idxList: the loop runs over the pool's own dense list.
IdxList_Live == IF q.src = "" THEN <<>> ELSE pools[q.src].dense

\* const auto idxList = ...->EntityIndices(): the loop runs over the copy.
IdxList == q.idxList

\* History: what the loop did with one snapshot position, and what held at
\* that turn: h0Alive, the entity the index stood for in the snapshot is
\* alive; ownsAll, the index has a component in the pool of every queried
\* type; isNew, the handle passed to fn came from a CreateEntity call of fn.
Turn(visited, id, vals) ==
    LET idx == IdxList[q.pos + 1]
        h0 == IF q.pos < Len(q.snapIds) THEN q.snapIds[q.pos + 1]
              ELSE INVALID_ENTITY
    IN  [idx |-> idx, visited |-> visited, id |-> id, vals |-> vals,
         h0 |-> h0,
         h0Alive |-> IsAlive(h0),
         ownsAll |-> \A k \in DOMAIN q.Ts :
                        /\ q.Ts[k] \in DOMAIN pools
                        /\ idx < Len(pools[q.Ts[k]].sparse)
                        /\ pools[q.Ts[k]].sparse[idx + 1] # EMPTY,
         isNew |-> visited /\ id \in q.created]

\* continue
Skip ==
    /\ q' = [q EXCEPT !.pos = @ + 1,
                      !.log = Append(@, Turn(FALSE, INVALID_ENTITY, <<>>))]
    /\ UNCHANGED <<fault, aborted>>

\* fn(id, Get(idx)...): every Get asserts Has(idx).  With the assertion
\* compiled in, a false one aborts; compiled out, m_data is read out of
\* bounds and fn is handed whatever is there.
CallVisitor(id, idx) ==
    LET lacks == {k \in DOMAIN q.Ts : ~Has(pools[q.Ts[k]], idx)}
    IN  IF lacks = {}
        THEN /\ q' = [q EXCEPT !.inCallback = TRUE,
                        !.log = Append(@, Turn(TRUE, id,
                            [k \in DOMAIN q.Ts |-> Get(pools[q.Ts[k]], idx)]))]
             /\ UNCHANGED <<fault, aborted>>
        ELSE /\ fault' = FirstFault(GetFault)
             /\ \/ aborted' = TRUE /\ q' = q
                \/ /\ aborted' = FALSE
                   /\ \E g \in Garbage :
                        q' = [q EXCEPT !.inCallback = TRUE,
                                !.log = Append(@, Turn(TRUE, id,
                                    [k \in DOMAIN q.Ts |->
                                        IF k \in lacks THEN g
                                        ELSE Get(pools[q.Ts[k]], idx)]))]

\* One pass of the loop of Each<T>, up to the call of fn.
EachStep ==
    /\ Running
    /\ q.kind = "Each" /\ ~q.inCallback /\ q.pos < Len(IdxList)
    /\ LET idx == IdxList[q.pos + 1]
       IN  IF idx >= Len(generations) THEN Skip
           ELSE CallVisitor(MakeEntity(idx, generations[idx + 1]), idx)
    /\ UNCHANGED <<scene, generations, freeList, alive, pools, issued, destroyed, owned>>

\* One pass of the loop of View<Ts...>, up to the call of fn.
ViewStep ==
    /\ Running
    /\ q.kind = "View" /\ ~q.inCallback /\ q.pos < Len(IdxList)
    /\ LET idx == IdxList[q.pos + 1]
       IN  IF ~HasAllAt(Reg, q.Ts, idx) THEN Skip
           ELSE IF idx >= Len(generations) THEN Skip
           ELSE CallVisitor(MakeEntity(idx, generations[idx + 1]), idx)
    /\ UNCHANGED <<scene, generations, freeList, alive, pools, issued, destroyed, owned>>

\* fn returns; the loop moves to the next snapshot position.
VisitorReturn ==
    /\ Running
    /\ InVisitor
    /\ q' = [q EXCEPT !.inCallback = FALSE, !.pos = @ + 1]
    /\ UNCHANGED <<scene, generations, freeList, alive, pools, fault, aborted,
                   issued, destroyed, owned>>

\* The loop is over (or was never entered): View / Each returns.
QueryEnd ==
    /\ Running
    /\ q.kind # "none" /\ ~q.inCallback /\ q.pos = Len(IdxList)
    /\ q' = Idle
    /\ UNCHANGED <<scene, generations, freeList, alive, pools, fault, aborted,
                   issued, destroyed, owned>>

\* Handles AddComponent is called with: issued ones and one never issued.
AddInputs == issued \cup {MakeEntity(MaxSlots, 1)}

ViewInputs == {<<"Position", "Velocity">>, <<"Velocity", "Position">>}

\* Any call of the Registry's mutating API.
Call ==
    \/ CreateEntity
    \/ \E id \in HandleInputs : DestroyEntity(id)
    \/ Clear
    \/ \E T \in Types, id \in AddInputs : AddComponent(T, id, Payload(id))
    \/ \E T \in Types, id \in HandleInputs : RemoveComponent(T, id)

Query ==
    \/ \E T \in Types : EachBegin(T)
    \/ \E Ts \in ViewInputs : ViewBegin(Ts)
    \/ EachStep
    \/ ViewStep
    \/ VisitorReturn
    \/ QueryEnd

\* Direct pool access, Registry::Pool<T>(): Emplace on an index that owns no
\* component (its precondition), Remove and Clear on any.
PoolEmplace(T, idx) ==
    /\ Running /\ TopLevel
    /\ ~Has(Pool(Reg, T)[T], idx)
    /\ pools' = [Pool(Reg, T) EXCEPT ![T] = Emplace(@, idx, idx + 1)]
    /\ UNCHANGED <<scene, generations, freeList, alive, q, fault, aborted,
                   issued, destroyed, owned>>

PoolRemove(T, idx) ==
    /\ Running /\ TopLevel
    /\ pools' = [Pool(Reg, T) EXCEPT ![T] = Remove(@, idx)]
    /\ UNCHANGED <<scene, generations, freeList, alive, q, fault, aborted,
                   issued, destroyed, owned>>

PoolClearAll(T) ==
    /\ Running /\ TopLevel
    /\ pools' = [Pool(Reg, T) EXCEPT ![T] = PoolClear(@)]
    /\ UNCHANGED <<scene, generations, freeList, alive, q, fault, aborted,
                   issued, destroyed, owned>>

NextPool ==
    \/ \E T \in Types, idx \in IndexInputs : PoolEmplace(T, idx)
    \/ \E T \in Types, idx \in IndexInputs : PoolRemove(T, idx)
    \/ \E T \in Types : PoolClearAll(T)

\* Any sequence of Emplace, Remove and Clear calls on the pools themselves.
SpecPool == Init /\ [][NextPool]_vars

\* The Registry's API called in any order, from a fresh Registry or from one
\* whose slot 0 has been recycled PriorCycles times.
Next == Call

Spec == InitRecycled /\ [][Next]_vars

\* The same without Registry::Clear: entities are created and destroyed, and
\* components given and taken, in any order.
NextLife ==
    \/ CreateEntity
    \/ \E id \in HandleInputs : DestroyEntity(id)
    \/ \E T \in Types, id \in AddInputs : AddComponent(T, id, Payload(id))
    \/ \E T \in Types, id \in HandleInputs : RemoveComponent(T, id)

SpecLife == InitRecycled /\ [][NextLife]_vars

\* The const methods.  IsAlive reads m_generations; Entities and EntityCount
\* read m_alive; HasComponent looks the pool up with PoolPtr<T>(), which
\* finds and never inserts.
IsAliveCall(id) ==
    /\ CanCall
    /\ UNCHANGED vars

EntitiesCall ==
    /\ CanCall
    /\ UNCHANGED vars

\* m_pools after PoolPtr<T>(): m_pools.find(type) leaves the map as it is.
PoolsAfterPoolPtr(r, T) == r.pools

HasComponentCall(T, id) ==
    /\ CanCall
    /\ pools' = PoolsAfterPoolPtr(Reg, T)
    /\ UNCHANGED <<scene, generations, freeList, alive, q, fault, aborted,
                   issued, destroyed, owned>>

\* The component API and the const methods on a Registry whose entities come
\* and go.
NextFrame ==
    \/ Cardinality(issued) < MaxFrameHandles /\ CreateEntity
    \/ \E id \in HandleInputs : DestroyEntity(id)
    \/ \E T \in Types, id \in AddInputs : AddComponent(T, id, Payload(id))
    \/ \E T \in Types, id \in AddInputs : GetOrAdd(T, id)
    \/ \E T \in Types, id \in HandleInputs : RemoveComponent(T, id)
    \/ \E id \in HandleInputs : IsAliveCall(id)
    \/ \E T \in Types, id \in HandleInputs : HasComponentCall(T, id)
    \/ EntitiesCall

SpecFrame == Init /\ [][NextFrame]_vars

\* CreateEntity, DestroyEntity, AddComponent, GetOrAdd and RemoveComponent in
\* any order on a new Registry.
NextAdd ==
    \/ CreateEntity
    \/ \E id \in HandleInputs : DestroyEntity(id)
    \/ \E T \in Types, id \in AddInputs : AddComponent(T, id, Payload(id))
    \/ \E T \in Types, id \in AddInputs : GetOrAdd(T, id)
    \/ \E T \in Types, id \in HandleInputs : RemoveComponent(T, id)

SpecAdd == Init /\ [][NextAdd]_vars

\* The API called in any order between queries whose visitor leaves the
\* Registry alone.
NextQuery ==
    \/ TopLevel /\ Call
    \/ Query

SpecQuery == Init /\ [][NextQuery]_vars

\* A scene is populated; queries run over it one after the other, and their
\* visitor calls the API.
NextVisitor ==
    \/ TopLevel /\ Cardinality(issued) < MaxVisitorHandles /\ CreateEntity
    \/ TopLevel /\ \E T \in Types, id \in Range(alive) : AddComponent(T, id, Payload(id))
    \/ InVisitor /\ Cardinality(issued) < MaxVisitorHandles /\ CreateEntity
    \/ InVisitor /\ \E id \in issued : DestroyEntity(id)
    \/ InVisitor /\ Clear
    \/ InVisitor /\ \E T \in Types, id \in issued : AddComponent(T, id, Payload(id))
    \/ InVisitor /\ \E T \in Types, id \in issued : RemoveComponent(T, id)
    \/ \E T \in Types : EachBegin(T)
    \/ \E Ts \in ViewInputs : ViewBegin(Ts)
    \/ EachStep
    \/ ViewStep
    \/ VisitorReturn
    \/ QueryEnd

SpecVisitor == Init /\ [][NextVisitor]_vars

-----------------------------------------------------------------------------
(* Entity lifecycle: C1, C2, C4, C5 *)

SameSlot(e, e2) == EntityIndex(e) = EntityIndex(e2)

\* The handles CreateEntity returned and DestroyEntity has not taken since.
Held == Range(alive)

\* C1 as stated: a handle e destroyed while alive is not alive afterwards,
\* and every handle e2 that CreateEntity returns later for e's slot, after
\* any number of create/destroy calls, differs from e and is alive.
C1_GenerationalSafety_AnyCount ==
    \A e \in destroyed :
        /\ ~IsAlive(e)
        /\ \A e2 \in Held : SameSlot(e, e2) => e2 # e /\ IsAlive(e2)

\* C1, amended: the same, for the handles e2 returned while e's slot has been
\* destroyed fewer than 2^GEN_BITS times.
C1_GenerationalSafety ==
    \A e \in destroyed :
        /\ ~IsAlive(e)
        /\ \A e2 \in Held :
              SameSlot(e, e2) /\ generations[EntityIndex(e) + 1] < 2 ^ GEN_BITS
                  => e2 # e /\ IsAlive(e2)

\* A slot destroyed 2^GEN_BITS - 1 times is held by a new entity while a
\* handle of an earlier occupant is still around.
C1_Witness ==
    \E e \in destroyed, e2 \in Held :
        /\ SameSlot(e, e2)
        /\ generations[EntityIndex(e) + 1] = 2 ^ GEN_BITS - 1

\* C2: the handle CreateEntity returns is alive when it is returned, and
\* DestroyEntity then destroys it, however often its slot has been recycled.
C2_CreatedIsAlive ==
    [][Len(alive') = Len(alive) + 1 =>
          LET id == alive'[Len(alive')]
          IN  /\ IsAliveIn(Reg', id)
              /\ DestroyEntityOp(Reg', id) # Reg']_vars

\* C4: DestroyEntity(h) on an alive handle h of slot i leaves no pool with a
\* component for i, adds one to generation[i], appends i to the free-list,
\* takes h out of the live list, and changes nothing of other slots.
C4_DestroyEffects ==
    [][\A h \in HandleInputs :
          IsAlive(h) /\ DestroyEntity(h) =>
              LET i == EntityIndex(h)
              IN  /\ DOMAIN pools' = DOMAIN pools
                  /\ \A T \in DOMAIN pools :
                        /\ ~Has(pools'[T], i)
                        /\ \A j \in IndexInputs \ {i} :
                              /\ Has(pools'[T], j) <=> Has(pools[T], j)
                              /\ Has(pools[T], j) =>
                                    Get(pools'[T], j) = Get(pools[T], j)
                  /\ Len(generations') = Len(generations)
                  /\ generations'[i + 1] = generations[i + 1] + 1
                  /\ \A j \in IndexInputs \ {i} :
                        j < Len(generations) => generations'[j + 1] = generations[j + 1]
                  /\ freeList' = Append(freeList, i)
                  /\ h \notin Range(alive')
                  /\ alive' = SelectSeq(alive, LAMBDA x : x # h)]_vars

\* C5: after DestroyEntity(h), for any handle h, a second DestroyEntity(h)
\* changes nothing: no second push on the free-list, no second bump.
C5_IdempotentDestroy ==
    [][\A h \in HandleInputs :
          DestroyEntity(h) => DestroyEntityOp(Reg', h) = Reg']_vars

\* A destroy has taken effect: the slot is on the free-list once, bumped,
\* and its old handle is known to the caller.
C5_Witness ==
    \E h \in destroyed :
        /\ ~IsAlive(h)
        /\ Len(SelectSeq(freeList, LAMBDA x : x = EntityIndex(h))) = 1
        /\ generations[EntityIndex(h) + 1] = 1

-----------------------------------------------------------------------------
(* Component pools: C3 *)

\* C3: in every pool, after any sequence of Emplace (on indices that own no
\* component), Remove and Clear: dense and data have the same length,
\* sparse[dense[i]] = i for every dense position i, and Has(idx) holds
\* exactly for the indices in dense.
C3_PoolDensity ==
    \A T \in DOMAIN pools :
        LET p == pools[T]
        IN  /\ Len(p.dense) = Len(p.data)
            /\ Len(p.data) = Size(p)
            /\ \A i \in 0..(Size(p) - 1) :
                  /\ p.dense[i + 1] < Len(p.sparse)
                  /\ p.sparse[p.dense[i + 1] + 1] = i
            /\ \A idx \in IndexInputs : Has(p, idx) <=> idx \in Range(p.dense)

\* A pool that a removal has reordered: the last-added index sits first and
\* the removed index has left a hole in sparse.
C3_Witness ==
    \E T \in DOMAIN pools :
        LET p == pools[T]
        IN  /\ Size(p) = 2
            /\ Len(p.sparse) = 3
            /\ p.sparse[1] = EMPTY
            /\ p.dense = <<2, 1>>

-----------------------------------------------------------------------------
(* Queries: C6 .. C10 *)

\* The entities that own a component of every type in Ts, by the history
\* of what was given and taken.
Owners(Ts) ==
    {h \in {c[2] : c \in owned} :
        \A k \in DOMAIN Ts : \E c \in owned : c[1] = Ts[k] /\ c[2] = h}

\* The value of type T the entity h was given.
Given(T, h) == (CHOOSE c \in owned : c[1] = T /\ c[2] = h)[3]

\* The handles the visitor has been invoked with, in order.
Visits == SelectSeq(q.log, LAMBDA t : t.visited)
VisitedIds == {Visits[k].id : k \in DOMAIN Visits}

LoopOver == q.kind # "none" /\ ~q.inCallback /\ q.pos = Len(q.idxList)

\* C6: with a visitor that leaves the Registry alone, View<A,B> invokes it
\* once for each entity owning both A and B and for no other entity,
\* whichever pool is smaller, equal sizes and an empty pool included.
C6_ViewComplete ==
    q.kind = "View" /\ q.calls = 0 =>
        /\ fault = "none"
        /\ \A k \in DOMAIN q.log :
              /\ q.log[k].visited <=> q.log[k].h0 \in Owners(q.Ts)
              /\ q.log[k].visited => q.log[k].id = q.log[k].h0
        /\ LoopOver =>
              /\ VisitedIds = Owners(q.Ts)
              /\ Len(Visits) = Cardinality(Owners(q.Ts))

\* View<A,B> has returned from its loop over two pools of equal size, having
\* visited the one entity that owns both types and passed over another.
C6_Witness ==
    /\ q.kind = "View" /\ LoopOver /\ q.calls = 0
    /\ Len(Visits) = 1 /\ Len(q.log) = 2
    /\ Size(pools[q.Ts[1]]) = 2 /\ Size(pools[q.Ts[2]]) = 2
    /\ Cardinality(Owners(q.Ts)) = 1

\* C10: with a visitor that leaves the Registry alone, Each<T> invokes it
\* once for each entity owning T, in dense order, with the entity's alive
\* handle and the value that entity was given, also after other entities
\* were destroyed or had T removed.
C10_EachComplete ==
    q.kind = "Each" /\ q.calls = 0 =>
        /\ fault = "none"
        /\ \A k \in DOMAIN q.log :
              LET t == q.log[k]
              IN  /\ t.visited
                  /\ t.idx = pools[q.Ts[1]].dense[k]
                  /\ t.id = t.h0
                  /\ IsAlive(t.id)
                  /\ t.id \in Owners(q.Ts)
                  /\ t.vals = <<Given(q.Ts[1], t.id)>>
        /\ LoopOver =>
              /\ VisitedIds = Owners(q.Ts)
              /\ Len(Visits) = Cardinality(Owners(q.Ts))

\* Each<T> has returned from its loop over two entities, the one added last
\* first in dense order, after a third entity was destroyed.
C10_Witness ==
    /\ q.kind = "Each" /\ LoopOver /\ q.calls = 0
    /\ Len(Visits) = 2
    /\ q.idxList = <<2, 1>>
    /\ freeList = <<0>>
    /\ destroyed # {}

\* C7 as stated: an entity created in an Each<A> visitor and given A there
\* is never passed to the visitor in that Each<A> call, whatever else the
\* visitor does.
C7_SnapshotIsolation_Always ==
    q.kind = "Each" /\ fault = "none" =>
        \A k \in DOMAIN q.log : ~q.log[k].isNew

\* C7, amended: the same, provided the visitor does not destroy (by
\* DestroyEntity or Clear) an entity of the snapshot whose turn has not come.
C7_SnapshotIsolation ==
    q.kind = "Each" /\ fault = "none" /\ q.freed = {} =>
        \A k \in DOMAIN q.log : ~q.log[k].isNew

\* Each<A> has returned from its loop; its visitor created an entity, gave
\* it an A and destroyed no entity of the snapshot; the new entity owns its
\* A and was not visited.
C7_Witness ==
    /\ q.kind = "Each" /\ LoopOver /\ fault = "none" /\ q.freed = {}
    /\ \E h \in q.created :
          /\ h \in Owners(q.Ts)
          /\ IsAlive(h)
          /\ h \notin VisitedIds

\* C8: in Each<T>, an entity of the snapshot from which the visitor took T,
\* or which it destroyed, before its turn is skipped: Get is never called
\* for an index for which Has is false, and the visitor is invoked only for
\* indices that own a T.
C8_EachSkipsStruck ==
    q.kind = "Each" =>
        /\ fault # GetFault
        /\ \A k \in DOMAIN q.log : q.log[k].visited => q.log[k].ownsAll

\* C9: in View<Ts...>, a snapshot entity that at its turn is destroyed or
\* lacks a queried component (the visitor took it and did not give it back)
\* is skipped and Get is not called on a pool that lacks it; every snapshot
\* entity that is alive and owns all of Ts at its turn is visited, and no
\* handle is visited twice.
C9_ViewSkipsStruck ==
    q.kind = "View" =>
        /\ fault # GetFault
        /\ \A k \in DOMAIN q.log :
              LET t == q.log[k]
              IN  /\ t.visited => t.ownsAll
                  /\ ~t.h0Alive \/ ~t.ownsAll => ~(t.visited /\ t.id = t.h0)
                  /\ t.h0Alive /\ t.ownsAll => t.visited /\ t.id = t.h0
        /\ \A k1, k2 \in DOMAIN Visits : k1 # k2 => Visits[k1].id # Visits[k2].id

\* View has returned from its loop over three entities: the visitor of the
\* first struck the second, which was skipped, and the third was visited.
C9_Witness ==
    /\ q.kind = "View" /\ LoopOver /\ Len(q.log) = 3
    /\ q.log[1].visited
    /\ ~q.log[2].visited /\ q.log[2].idx \in q.freed \cup q.stripped
    /\ q.log[3].visited /\ q.log[3].id = q.log[3].h0

-----------------------------------------------------------------------------
(* Handles that are not alive: C11, C12 *)

\* The entity h owns a component of type T, by the history of what was given
\* and taken.
Owns(T, h) == \E c \in owned : c[1] = T /\ c[2] = h

\* C11: RemoveComponent<T>(h) with a handle h that is not alive changes no
\* pool; the entity that occupies h's slot keeps its T.
C11_RemoveStaleIsNoOp ==
    [][\A T \in Types, h \in HandleInputs :
          RemoveComponent(T, h) /\ ~IsAlive(h) => pools' = pools]_vars

\* C12: HasComponent<T>(h) is true exactly if h is alive and the entity h
\* owns a T; it is false for every handle that is not alive.
C12_HasComponentStale ==
    fault = "none" =>
        \A T \in Types, h \in HandleInputs :
            HasComponent(T, h) <=> IsAlive(h) /\ Owns(T, h)

-----------------------------------------------------------------------------
(* The limits of the handle: C13, C14 *)

\* The Registry after 2^INDEX_BITS CreateEntity calls, after which the last
\* entity was destroyed and created again until its slot had been destroyed
\* PriorCycles times, and is free.  A value, not a state of the model: a
\* behaviour through it could not be written down.
LastSlotFree ==
    [generations |-> [i \in 1..(2 ^ INDEX_BITS) |->
                         IF i = 2 ^ INDEX_BITS THEN PriorCycles ELSE 0],
     freeList |-> <<INDEX_MASK>>,
     alive |-> [i \in 1..INDEX_MASK |-> MakeEntity(i - 1, 0)],
     pools |-> [t \in {} |-> NewPool]]

\* The calls that follow: CreateEntity, DestroyEntity of the handle it
\* returned, CreateEntity.
LastSlotCalls ==
    LET c1 == CreateEntityOp(LastSlotFree)
        r2 == DestroyEntityOp(c1.reg, c1.id)
    IN  <<c1, CreateEntityOp(r2)>>

\* In the Registry r the sentinel is not alive and not in Entities().
NoSentinel(r) ==
    /\ ~IsAliveIn(r, INVALID_ENTITY)
    /\ SelectSeq(r.alive, LAMBDA h : h = INVALID_ENTITY) = <<>>

\* CreateEntity on the highest slot index, recycled until its generation bits
\* are all ones, does not return the sentinel or make it alive.
LastSlotNoSentinel ==
    \A k \in DOMAIN LastSlotCalls :
        LastSlotCalls[k].id # INVALID_ENTITY /\ NoSentinel(LastSlotCalls[k].reg)

\* C13: INVALID_ENTITY is never a live handle: IsAlive(INVALID_ENTITY) is
\* false, CreateEntity never returns it and it is not in Entities(), also
\* when the highest slot index is recycled until its generation bits are all
\* ones.
C13_InvalidNeverLive ==
    /\ NoSentinel(Reg)
    /\ INVALID_ENTITY \notin issued
    /\ LastSlotNoSentinel

\* The Registry with all 2^INDEX_BITS slots in use and an empty free-list.
AllSlotsAlive == LastSlotCalls[1].reg

\* CreateEntity with all slots in use returns a handle whose index field is
\* the index of the slot it added, and which was not alive before.
OverflowNoAlias ==
    LET c == CreateEntityOp(AllSlotsAlive)
    IN  /\ EntityIndex(c.id) = Len(AllSlotsAlive.generations)
        /\ ~IsAliveIn(AllSlotsAlive, c.id)
        /\ SelectSeq(AllSlotsAlive.alive, LAMBDA h : h = c.id) = <<>>

\* C14: a CreateEntity call that needs a slot whose index does not fit in
\* INDEX_BITS does not wrap silently: no call, here or with all 2^INDEX_BITS
\* slots in use, returns a handle that another live entity holds.
C14_IndexOverflowReported ==
    /\ [][Len(alive') = Len(alive) + 1 =>
             fault' # "none" \/ alive'[Len(alive')] \notin Range(alive)]_vars
    /\ []OverflowNoAlias

-----------------------------------------------------------------------------
(* Teardown: C15 *)

\* A Registry as constructed.
FreshReg == [generations |-> <<>>, freeList |-> <<>>, alive |-> <<>>,
             pools |-> [t \in {} |-> NewPool]]

\* The Registry r without its pools that are as constructed.
Strip(r) ==
    [r EXCEPT !.pools = [t \in {u \in DOMAIN r.pools : r.pools[u] # NewPool}
                            |-> r.pools[t]]]

\* The Registry after AddComponent<T>(id, v) has stored v.
Stored(r, T, id, v) ==
    [r EXCEPT !.pools = [Pool(r, T) EXCEPT ![T] = Emplace(@, EntityIndex(id), v)]]

\* No call tells a pool that exists and is as constructed from a pool that
\* does not exist: a call returns the same and leaves the same Registry, up
\* to such pools, whether they are there or not.
EmptyPoolsUnseen ==
    LET r == Reg
        s == Strip(Reg)
    IN  s # r =>
        /\ CreateEntityOp(r).id = CreateEntityOp(s).id
        /\ Strip(CreateEntityOp(r).reg) = Strip(CreateEntityOp(s).reg)
        /\ Strip(ClearOp(r)) = Strip(ClearOp(s))
        /\ \A h \in HandleInputs :
              /\ IsAliveIn(r, h) = IsAliveIn(s, h)
              /\ Strip(DestroyEntityOp(r, h)) = Strip(DestroyEntityOp(s, h))
              /\ \A T \in Types :
                    /\ HasComponentIn(r, T, h) = HasComponentIn(s, T, h)
                    /\ Strip(RemoveComponentOp(r, T, h)) =
                           Strip(RemoveComponentOp(s, T, h))
                    /\ Has(Pool(r, T)[T], EntityIndex(h)) =
                           Has(Pool(s, T)[T], EntityIndex(h))
        /\ \A h \in AddInputs, T \in Types :
              Strip(Stored(r, T, h, Payload(h))) =
                  Strip(Stored(s, T, h, Payload(h)))
        /\ \A T \in Types : EachSnapshot(r, T) = EachSnapshot(s, T)
        /\ \A Ts \in ViewInputs : ViewSnapshot(r, Ts) = ViewSnapshot(s, Ts)

\* C15: after Clear() the Registry is a freshly constructed one but for pools
\* that exist and are as constructed, which no call can tell from missing
\* ones: EntityCount() is 0, IsAlive and HasComponent are false for every
\* handle, Each and View iterate over nothing, the next CreateEntity returns
\* index 0, generation 0, and a second Clear() changes nothing.
C15_ClearIsFresh ==
    /\ []EmptyPoolsUnseen
    /\ [][Clear =>
            /\ Strip(Reg') = FreshReg
            /\ Len(alive') = 0
            /\ \A h \in HandleInputs :
                  /\ ~IsAliveIn(Reg', h)
                  /\ \A T \in Types : ~HasComponentIn(Reg', T, h)
            /\ \A T \in Types : EachSnapshot(Reg', T).idxList = <<>>
            /\ \A Ts \in ViewInputs : ViewSnapshot(Reg', Ts).idxList = <<>>
            /\ CreateEntityOp(Reg').id = MakeEntity(0, 0)
            /\ ClearOp(Reg') = Reg']_vars

\* After a scene with two entities and both pools was torn down by Clear(),
\* CreateEntity has returned index 0, generation 0 again.
C15_Witness ==
    /\ generations = <<0>> /\ alive = <<MakeEntity(0, 0)>> /\ freeList = <<>>
    /\ MakeEntity(1, 0) \in issued
    /\ DOMAIN pools = Types
    /\ \A T \in Types : pools[T] = NewPool

-----------------------------------------------------------------------------
(* Component pools: C16 *)

\* What Remove(idx) may change in taking the pool p to the pool p2.
RemoveFrame(p, p2, idx) ==
    IF ~Has(p, idx) THEN p2 = p
    ELSE
      LET d == p.sparse[idx + 1]
          last == Size(p) - 1
      IN  /\ Size(p2) = Size(p) - 1
          /\ Len(p2.data) = Len(p.data) - 1
          /\ ~Has(p2, idx)
          /\ d # last =>
                /\ p2.dense[d + 1] = p.dense[last + 1]
                /\ p2.data[d + 1] = p.data[last + 1]
          /\ \A i \in 0..(Size(p2) - 1) :
                i # d => p2.dense[i + 1] = p.dense[i + 1]
                         /\ p2.data[i + 1] = p.data[i + 1]
          /\ \A j \in IndexInputs :
                j # idx =>
                    /\ Has(p2, j) <=> Has(p, j)
                    /\ Has(p, j) => Get(p2, j) = Get(p, j)

\* C16: Remove(idx) leaves the pool unchanged if idx owns no component;
\* otherwise Size() drops by one, Has(idx) becomes false, the element that
\* was last in dense order takes the freed dense position (unless idx was
\* last), and Has(j) and Get(j) are unchanged for every other index j.
C16_RemoveFrame ==
    [][\A T \in Types, idx \in IndexInputs :
          PoolRemove(T, idx) => RemoveFrame(Pool(Reg, T)[T], pools'[T], idx)]_vars

\* The Position pool after indices 0, 1, 2 were added and 0 removed: the
\* last element, with its value, has taken the first dense position.
C16_Witness ==
    /\ "Position" \in DOMAIN pools
    /\ pools["Position"] =
           [sparse |-> <<EMPTY, 1, 0>>, dense |-> <<2, 1>>, data |-> <<3, 2>>]

-----------------------------------------------------------------------------
(* Adding components: C17, C18, C19 *)

AlreadyOwnsFault == "Emplace: entity already owns this component"
NotAliveFault == "AddComponent: entity is not alive"

\* No entity index occurs twice in the dense array of p.
NoDuplicate(p) ==
    \A i, j \in DOMAIN p.dense : p.dense[i] = p.dense[j] => i = j

\* C17: while no assertion has fired, no entity index occurs more than once
\* in any pool's dense array; and AddComponent<T> on a live entity that owns
\* a T trips the "already owns" assertion.
C17_OneComponentPerType ==
    /\ [](fault = "none" => \A T \in DOMAIN pools : NoDuplicate(pools[T]))
    /\ [][\A T \in Types, id \in AddInputs :
             AddComponent(T, id, Payload(id)) /\ IsAlive(id) /\ Owns(T, id)
             => fault' = AlreadyOwnsFault]_vars

\* A second AddComponent was stopped by the assertion, in a pool of two.
C17_Witness ==
    /\ fault = AlreadyOwnsFault
    /\ aborted
    /\ \E T \in DOMAIN pools : Size(pools[T]) = 2 /\ NoDuplicate(pools[T])

\* C18: when an assertion of AddComponent stops the call, the slot table,
\* the live list, the set of pools and the contents of every pool are what
\* they were before the call.
C18_FailedAddChangesNothing ==
    [][fault = "none" /\ fault' \in {AlreadyOwnsFault, NotAliveFault} /\ aborted'
       => Reg' = Reg]_vars

\* Both contract violations stopped on a Registry that holds something.
C18_Witness ==
    /\ fault \in {AlreadyOwnsFault, NotAliveFault}
    /\ aborted
    /\ Len(alive) = 2
    /\ \E T \in DOMAIN pools : pools[T].sparse = <<EMPTY, 0>>

\* The pool of T in r with one more component, DefaultT, for the entity at idx.
WithDefault(r, T, idx) ==
    LET p == Pool(r, T)[T]
    IN  /\ DOMAIN pools' = DOMAIN r.pools \cup {T}
        /\ \A U \in DOMAIN r.pools \ {T} : pools'[U] = r.pools[U]
        /\ pools'[T].dense = Append(p.dense, idx)
        /\ pools'[T].data = Append(p.data, DefaultT)
        /\ Has(pools'[T], idx) /\ Get(pools'[T], idx) = DefaultT
        /\ \A j \in IndexInputs \ {idx} :
              /\ Has(pools'[T], j) <=> Has(p, j)
              /\ Has(p, j) => Get(pools'[T], j) = Get(p, j)

\* C19: GetOrAdd<T>(h) on a live handle h trips no assertion; if h owns a T
\* nothing changes, otherwise exactly one default-constructed T is added for
\* h; afterwards h owns a T, so that a second call is of the first kind.
C19_GetOrAdd ==
    [][\A T \in Types, h \in AddInputs :
          GetOrAdd(T, h) /\ IsAlive(h)
          => /\ fault' = fault
             /\ <<generations', freeList', alive'>> = <<generations, freeList, alive>>
             /\ IF Owns(T, h)
                THEN pools' = pools /\ owned' = owned
                ELSE /\ WithDefault(Reg, T, EntityIndex(h))
                     /\ owned' = owned \cup {<<T, h, DefaultT>>}
             /\ IsAliveIn(Reg', h) /\ HasComponentIn(Reg', T, h)
             /\ \E c \in owned' : c[1] = T /\ c[2] = h]_vars

\* GetOrAdd has given a default component to a live entity that shares the
\* pool with another.
C19_Witness ==
    /\ fault = "none"
    /\ \E c \in owned :
          /\ c[3] = DefaultT /\ IsAlive(c[2])
          /\ Size(pools[c[1]]) = 2
          /\ Get(pools[c[1]], EntityIndex(c[2])) = DefaultT

-----------------------------------------------------------------------------
(* View over a missing pool: C20 *)

\* Some pool of the running View does not exist.
PoolMissing == \E k \in DOMAIN q.Ts : ~PoolPtr(Reg, q.Ts[k])

\* C20: a View one of whose pools was never created iterates nothing, calls
\* the visitor zero times and leaves the Registry as it was, the missing
\* pool not created.
C20_ViewMissingPool ==
    /\ [](q.kind = "View" /\ PoolMissing
            => q.idxList = <<>> /\ q.log = <<>> /\ Visits = <<>>
               /\ ~q.inCallback)
    /\ [][\A Ts \in ViewInputs :
             ViewBegin(Ts) /\ (\E k \in DOMAIN Ts : ~PoolPtr(Reg, Ts[k]))
             => Reg' = Reg]_vars

\* A View over a pool of two and a pool never created.
C20_Witness ==
    /\ q.kind = "View"
    /\ PoolMissing
    /\ \E k \in DOMAIN q.Ts : PoolPtr(Reg, q.Ts[k]) /\ Size(pools[q.Ts[k]]) = 2

-----------------------------------------------------------------------------
(* Handle packing: C24 *)

\* Arguments given to MakeEntity: the ends of both fields, the carry between
\* the two halves of the index, and values past each field's width.
IdxArgs == {0, 1, Half, INDEX_MASK, INDEX_MASK + 1, INDEX_MASK + 2}
GenArgs == {0, 1, GEN_MASK, GEN_MASK + 1}

\* MakeEntity(idx, gen) is called and its result kept.
MakeEntityCall(idx, gen) ==
    /\ issued' = issued \cup {MakeEntity(idx, gen)}
    /\ UNCHANGED <<scene, generations, freeList, alive, pools, q, fault, aborted,
                   destroyed, owned>>

NextEntity == \E idx \in IdxArgs, gen \in GenArgs : MakeEntityCall(idx, gen)

SpecEntity == Init /\ [][NextEntity]_vars

\* The 32 bits of a handle, as a natural number below 2^16 in each half.
IsUint32(h) == h[1] \in 0..(Half - 1) /\ h[2] \in 0..(Half - 1)

\* C24: EntityIndex and EntityGeneration give back the arguments of
\* MakeEntity when these are within INDEX_BITS and GEN_BITS, and the
\* arguments cut to those widths otherwise, neither field reaching into the
\* other; two handles are equal iff index and generation are.
C24_PackingRoundTrips ==
    /\ [](\A h1, h2 \in issued :
            h1 = h2 <=> /\ EntityIndex(h1) = EntityIndex(h2)
                        /\ EntityGeneration(h1) = EntityGeneration(h2))
    /\ [][\A idx \in IdxArgs, gen \in GenArgs :
             MakeEntityCall(idx, gen)
             => \E h \in issued' :
                   /\ IsUint32(h)
                   /\ idx <= INDEX_MASK => EntityIndex(h) = idx
                   /\ gen <= GEN_MASK => EntityGeneration(h) = gen
                   /\ EntityIndex(h) = idx - (idx \div (INDEX_MASK + 1)) * (INDEX_MASK + 1)
                   /\ EntityGeneration(h) = gen - (gen \div (GEN_MASK + 1)) * (GEN_MASK + 1)
                   /\ \A gen2 \in GenArgs :
                         EntityIndex(MakeEntity(idx, gen2)) = EntityIndex(h)
                   /\ \A idx2 \in IdxArgs :
                         EntityGeneration(MakeEntity(idx2, gen)) = EntityGeneration(h)]_vars

\* Handles were made from the largest index and generation and from
\* arguments one past them.
C24_Witness ==
    /\ MakeEntity(INDEX_MASK, GEN_MASK) \in issued
    /\ MakeEntity(INDEX_MASK + 1, GEN_MASK + 1) \in issued
    /\ MakeEntity(Half, 1) \in issued
    /\ Cardinality(issued) = 3

-----------------------------------------------------------------------------
(* Slot allocation: C25 *)

\* The handle a CreateEntity step has returned: the one it appended to the
\* live list.
Returned == alive'[Len(alive')]

\* C25: CreateEntity takes the head of a non-empty free-list, to which
\* DestroyEntity appends, and the handle carries the generation that slot's
\* last destroy left; with an empty free-list it appends a slot of generation
\* 0 whose index is the number of slots so far.  It changes no existing
\* generation and no pool.
C25_SlotAllocationOrder ==
    /\ [][\A id \in HandleInputs :
             DestroyEntity(id) /\ IsAlive(id)
             => freeList' = Append(freeList, EntityIndex(id))]_vars
    /\ [][CreateEntity
          => /\ pools' = pools
             /\ \A i \in DOMAIN generations : generations'[i] = generations[i]
             /\ IF freeList # <<>>
                THEN /\ EntityIndex(Returned) = Head(freeList)
                     /\ freeList' = Tail(freeList)
                     /\ Len(generations') = Len(generations)
                     /\ EntityGeneration(Returned) = generations[Head(freeList) + 1]
                ELSE /\ EntityIndex(Returned) = Len(generations)
                     /\ generations' = Append(generations, 0)
                     /\ EntityGeneration(Returned) = 0
                     /\ freeList' = <<>>]_vars

-----------------------------------------------------------------------------
(* The live list and the slot table: C26, C28 *)

\* Entities() and EntityCount()
Entities == alive
EntityCount == Len(alive)

\* C26: Entities() holds exactly the handles that IsAlive accepts, each once,
\* and EntityCount() goes up by one with every CreateEntity, down by one with
\* every DestroyEntity of a live handle, to zero with Clear, and changes with
\* nothing else.
C26_LiveList ==
    /\ [](fault = "none"
          => /\ \A h \in HandleInputs : IsAlive(h) <=> h \in Range(Entities)
             /\ \A i, j \in DOMAIN Entities : Entities[i] = Entities[j] => i = j)
    /\ [][fault' = "none"
          => EntityCount' =
                IF CreateEntity THEN EntityCount + 1
                ELSE IF \E h \in HandleInputs : DestroyEntity(h) /\ IsAlive(h)
                     THEN EntityCount - 1
                ELSE IF Clear THEN 0
                ELSE EntityCount]_vars

\* C28: the free-list holds no index twice and no index of a handle in
\* Entities(), and live entities and free slots together are all the slots.
C28_SlotAccounting ==
    fault = "none"
    => /\ \A i, j \in DOMAIN freeList : freeList[i] = freeList[j] => i = j
       /\ \A i \in DOMAIN freeList, k \in DOMAIN Entities :
             freeList[i] # EntityIndex(Entities[k])
       /\ EntityCount + Len(freeList) = Len(generations)

-----------------------------------------------------------------------------
(* Handles issued before Clear: C29 *)

\* C29: a handle issued before Clear() is not alive after it, nor after the
\* CreateEntity that follows, and that CreateEntity returns none of them.
C29_StaleAfterClear ==
    [][Clear
       => /\ \A h \in issued : ~IsAliveIn(Reg', h)
          /\ CreateEntityOp(Reg').id \notin issued
          /\ \A h \in issued : ~IsAliveIn(CreateEntityOp(Reg').reg, h)]_vars

-----------------------------------------------------------------------------
(* Orphan components: C27 *)

\* C27: while no assertion has fired, every index in a pool's dense array is
\* the index of an entity of the live list and not on the free-list; and the
\* handle CreateEntity returns owns no component.
C27_NoOrphans ==
    /\ [](fault = "none"
          => \A T \in DOMAIN pools : \A k \in DOMAIN pools[T].dense :
                /\ \E a \in DOMAIN alive : EntityIndex(alive[a]) = pools[T].dense[k]
                /\ \A f \in DOMAIN freeList : freeList[f] # pools[T].dense[k])
    /\ [][CreateEntity
          => \A T \in DOMAIN pools' : ~HasComponentIn(Reg', T, Returned)]_vars

-----------------------------------------------------------------------------
(* Component-type independence: C30 *)

\* The slot table, the live list and every pool of a type other than T are
\* in the next state what they are now; no pool of another type appears.
OnlyPoolOf(T) ==
    /\ <<generations', freeList', alive'>> = <<generations, freeList, alive>>
    /\ DOMAIN pools' \ {T} = DOMAIN pools \ {T}
    /\ \A U \in DOMAIN pools \ {T} : pools'[U] = pools[U]

\* C30: AddComponent<T>, GetOrAdd<T> and RemoveComponent<T> change at most
\* the pool of T; IsAlive, HasComponent, Entities and EntityCount change
\* nothing, HasComponent creating no pool.
C30_TypeIndependence ==
    /\ [][\A T \in Types, id \in AddInputs :
             AddComponent(T, id, Payload(id)) \/ GetOrAdd(T, id)
             => OnlyPoolOf(T)]_vars
    /\ [][\A T \in Types, id \in HandleInputs :
             RemoveComponent(T, id) => OnlyPoolOf(T)]_vars
    /\ [][\A T \in Types, id \in HandleInputs :
             IsAliveCall(id) \/ HasComponentCall(T, id) \/ EntitiesCall
             => Reg' = Reg]_vars

\* Two entities own components of both types, given in different orders,
\* and one component has been removed again.
C30_Witness ==
    /\ fault = "none"
    /\ "Position" \in DOMAIN pools /\ "Velocity" \in DOMAIN pools
    /\ pools["Position"].dense = <<0, 1>>
    /\ pools["Velocity"].dense = <<1>>
    /\ pools["Velocity"].sparse = <<EMPTY, 0>>
    /\ \E c \in owned : c[3] = DefaultT

-----------------------------------------------------------------------------
(* Components.hpp: the components the script bindings and the scene use.   *)
(* A float is an integer; a Vector3 is one integer, its three coordinates  *)
(* being written and read together.                                        *)

NewTransform == [position |-> 0, rotation |-> "identity", scale |-> 1]
NewVelocity == [linear |-> 0, angular |-> 0]
NewTag == [name |-> ""]
NewHealth == [current |-> 100, max |-> 100]
NewLifetime == [remaining |-> 1]
NewPlayer == [player |-> "nullptr", enableSourceBhop |-> FALSE,
              speedMultiplier |-> 1, jumpMultiplier |-> 1]

\* T{}
DefaultOf(T) ==
    CASE T = "Transform" -> NewTransform
      [] T = "Velocity" -> NewVelocity
      [] T = "Tag" -> NewTag
      [] T = "Health" -> NewHealth
      [] T = "Lifetime" -> NewLifetime
      [] T = "Player" -> NewPlayer

\* HealthComponent::isDead
isDead(h) == h.current <= 0

\* HealthComponent::ApplyDamage
ApplyDamage(h, dmg) ==
    LET c == h.current - dmg
    IN  [h EXCEPT !.current = IF c < 0 THEN 0 ELSE c]

\* HealthComponent::Heal
Heal(h, hp) ==
    LET c == h.current + hp
    IN  [h EXCEPT !.current = IF c > h.max THEN h.max ELSE c]

-----------------------------------------------------------------------------
(* Registry calls as the bindings and the scene make them: the Registry    *)
(* after the call and the first assertion of the call that was false.      *)

GetAliveFault == "GetComponent: entity is not alive"
GetOwnsFault == "GetComponent: entity does not own this component"

\* The first fault of two steps made one after the other.
Then(f1, f2) == IF f1 # "none" THEN f1 ELSE f2

\* AddComponent<T>(id) with a value v
AddComponentOp(r, T, id, v) ==
    LET idx == EntityIndex(id)
        withPool == [r EXCEPT !.pools = Pool(r, T)]
    IN  [reg |-> [withPool EXCEPT !.pools[T] = Emplace(@, idx, v)],
         fault |-> IF ~IsAliveIn(r, id) THEN NotAliveFault
                   ELSE IF Has(Resize(withPool.pools[T], idx), idx)
                        THEN AlreadyOwnsFault
                   ELSE "none"]

\* The assertions of GetComponent<T>(id) and of ComponentPool::Get
GetComponentFault(r, T, id) ==
    IF ~IsAliveIn(r, id) THEN GetAliveFault
    ELSE IF ~HasComponentIn(r, T, id) THEN GetOwnsFault
    ELSE "none"

\* GetOrAdd<T>(id)
GetOrAddOp(r, T, id) ==
    LET added == IF ~HasComponentIn(r, T, id)
                 THEN AddComponentOp(r, T, id, DefaultOf(T))
                 ELSE [reg |-> r, fault |-> "none"]
    IN  [reg |-> added.reg,
         fault |-> Then(added.fault, GetComponentFault(added.reg, T, id))]

\* The T of the entity id, as GetComponent<T>(id) and GetOrAdd<T>(id) give it
Component(r, T, id) == Get(r.pools[T], EntityIndex(id))

\* A write through the reference GetComponent<T>(id) has returned.
Write(r, T, id, field, v) ==
    LET at == r.pools[T].sparse[EntityIndex(id) + 1] + 1
    IN  [r EXCEPT !.pools[T].data[at][field] = v]

\* history: the components the live entities of r hold
OwnedIn(r) ==
    UNION {{<<T, r.alive[k], Component(r, T, r.alive[k])>> :
               k \in {a \in DOMAIN r.alive :
                         /\ IsAliveIn(r, r.alive[a])
                         /\ HasComponentIn(r, T, r.alive[a])}} :
           T \in DOMAIN r.pools}

-----------------------------------------------------------------------------
(* LuaLibraries/ECS.cpp: the ecs.* bindings.  m_registry is the Registry   *)
(* of the model; g_registry points to it or is null.                       *)

\* Bounds of the scripted scene: slots, and handles ecs.create hands out.
MaxBridgeSlots == 1
MaxBridgeHandles == 2

\* Arguments scripts pass: a vector, hit points, seconds, a name.
VecInputs == {2}
HpInputs == {1}
SecondsInputs == {0, 2}
NameInputs == {"tag"}

\* toEntityId: any integer, cut to 32 bits
IdInputs == issued \cup {INVALID_ENTITY}

\* registryReady that always answers true.
registryReady_Always == TRUE

registryReady == g_registry # "nullptr"

NullFault == "g_registry: null pointer dereferenced"

\* A binding has made its calls on *g_registry: res.reg is the Registry
\* after them and res.fault the first assertion that was false.  A false
\* assertion aborts before the call it guards, or is compiled out.
\* Dereferencing a null g_registry is undefined.
Commit(before, res) ==
    /\ Running /\ TopLevel
    /\ IF g_registry = "nullptr"
       THEN /\ fault' = NullFault
            /\ aborted' \in BOOLEAN
            /\ \/ SetReg(before) /\ owned' = owned
               \/ SetReg(res.reg) /\ owned' = OwnedIn(res.reg)
       ELSE IF res.fault # "none"
       THEN /\ fault' = res.fault
            /\ \/ aborted' = TRUE /\ SetReg(before) /\ owned' = owned
               \/ aborted' = FALSE /\ SetReg(res.reg) /\ owned' = OwnedIn(res.reg)
       ELSE /\ SetReg(res.reg)
            /\ owned' = OwnedIn(res.reg)
            /\ UNCHANGED <<fault, aborted>>
    /\ UNCHANGED <<q, scene>>

\* return 0 before any call on the Registry
Ignored ==
    /\ Running /\ TopLevel
    /\ UNCHANGED vars

NoFault(r) == [reg |-> r, fault |-> "none"]

\* ecs.create(): the id it returns
l_create_id == IF ~registryReady THEN INVALID_ENTITY ELSE CreateEntityOp(Reg).id

\* ecs.create() while the scene has room for slots and handles
l_createWithin(slots, handles) ==
    IF ~registryReady THEN Ignored
    ELSE /\ freeList # <<>> \/ Len(generations) < slots
         /\ l_create_id \in issued \/ Cardinality(issued) < handles
         /\ Commit(Reg, NoFault(CreateEntityOp(Reg).reg))
         /\ issued' = issued \cup {l_create_id}
         /\ UNCHANGED destroyed

l_create == l_createWithin(MaxBridgeSlots, MaxBridgeHandles)

l_destroy(id) ==
    IF ~registryReady THEN Ignored
    ELSE /\ Commit(Reg, NoFault(DestroyEntityOp(Reg, id)))
         /\ destroyed' = IF IsAlive(id) THEN destroyed \cup {id} ELSE destroyed
         /\ UNCHANGED issued

\* A binding that changes components only.
Binding(res) ==
    /\ Commit(Reg, res)
    /\ UNCHANGED <<issued, destroyed>>

\* pc.player of the entity's PlayerComponent is read when the entity has one.
PlayerFault(r, id) ==
    IF HasComponentIn(r, "Player", id)
    THEN GetComponentFault(r, "Player", id) ELSE "none"

\* GetOrAdd<T>(id).field = v
GetOrAddWrite(r, T, id, field, v) ==
    LET got == GetOrAddOp(r, T, id)
    IN  [reg |-> Write(got.reg, T, id, field, v), fault |-> got.fault]

\* GetComponent<T>(id).field = v
GetWrite(r, T, id, field, v) ==
    [reg |-> Write(r, T, id, field, v), fault |-> GetComponentFault(r, T, id)]

l_setPos(id, v) ==
    IF ~registryReady THEN Ignored
    ELSE IF ~IsAlive(id) THEN Ignored
    ELSE LET res == GetOrAddWrite(Reg, "Transform", id, "position", v)
         IN  Binding([res EXCEPT !.fault = Then(PlayerFault(Reg, id), @)])

l_setScale(id, v) ==
    IF ~registryReady THEN Ignored
    ELSE IF ~IsAlive(id) THEN Ignored
    ELSE Binding(GetOrAddWrite(Reg, "Transform", id, "scale", v))

l_setVelocity(id, v) ==
    IF ~registryReady THEN Ignored
    ELSE IF ~IsAlive(id) THEN Ignored
    ELSE Binding(GetOrAddWrite(Reg, "Velocity", id, "linear", v))

l_setTag(id, name) ==
    IF ~registryReady THEN Ignored
    ELSE IF ~IsAlive(id) THEN Ignored
    ELSE Binding(GetOrAddWrite(Reg, "Tag", id, "name", name))

l_addHealth(id, maxHp) ==
    IF ~registryReady THEN Ignored
    ELSE IF ~IsAlive(id) THEN Ignored
    ELSE IF ~HasComponent("Health", id)
    THEN Binding(AddComponentOp(Reg, "Health", id,
                    [NewHealth EXCEPT !.max = maxHp, !.current = maxHp]))
    ELSE LET res == GetWrite(Reg, "Health", id, "max", maxHp)
         IN  Binding([res EXCEPT !.reg = Write(@, "Health", id, "current", maxHp)])

l_damage(id, amt) ==
    IF ~registryReady THEN Ignored
    ELSE IF IsAlive(id) /\ HasComponent("Health", id)
    THEN Binding(GetWrite(Reg, "Health", id, "current",
                    ApplyDamage(Component(Reg, "Health", id), amt).current))
    ELSE Ignored

l_heal(id, amt) ==
    IF ~registryReady THEN Ignored
    ELSE IF IsAlive(id) /\ HasComponent("Health", id)
    THEN Binding(GetWrite(Reg, "Health", id, "current",
                    Heal(Component(Reg, "Health", id), amt).current))
    ELSE Ignored

l_setLifetime(id, sec) ==
    IF ~registryReady THEN Ignored
    ELSE IF ~IsAlive(id) THEN Ignored
    ELSE Binding(GetOrAddWrite(Reg, "Lifetime", id, "remaining", sec))

\* bhop: Player::enableSourceBhop of the engine player, which is outside the
\* model; it is read when a player is attached.
l_addPlayer(id, bhop) ==
    IF ~registryReady THEN Ignored
    ELSE IF ~IsAlive(id) THEN Ignored
    ELSE LET pc == [NewPlayer EXCEPT
                       !.player = g_ecsPlayer,
                       !.enableSourceBhop =
                           IF g_ecsPlayer # "nullptr" THEN bhop ELSE @]
             added == IF ~HasComponent("Player", id)
                      THEN AddComponentOp(Reg, "Player", id, pc)
                      ELSE NoFault(Reg)
             got == GetOrAddOp(added.reg, "Transform", id)
         IN  Binding([reg |-> got.reg, fault |-> Then(added.fault, got.fault)])

l_removePlayer(id) ==
    IF ~registryReady THEN Ignored
    ELSE Binding(NoFault(RemoveComponentOp(Reg, "Player", id)))

l_setPlayerBhop(id, enabled) ==
    IF ~registryReady THEN Ignored
    ELSE IF ~IsAlive(id) THEN Ignored
    ELSE IF ~HasComponent("Player", id) THEN Ignored
    ELSE Binding(GetWrite(Reg, "Player", id, "enableSourceBhop", enabled))

\* What a reading binding pushes, and the first assertion of its calls that
\* was false.
Pushes(vals) == [vals |-> vals, fault |-> "none"]

\* A reading binding returns.
Returns(res) ==
    /\ Running /\ TopLevel
    /\ IF res.fault = "none" THEN UNCHANGED <<fault, aborted>>
       ELSE fault' = res.fault /\ aborted' \in BOOLEAN
    /\ UNCHANGED <<generations, freeList, alive, pools, q, issued, destroyed,
                   owned, scene>>

\* push3zeros
push3zeros == Pushes(<<0, 0, 0>>)

\* A Vector3 pushed as its three coordinates.
Push3(v) == <<v, v, v>>

l_isAlive_result(id) ==
    IF g_registry = "nullptr" THEN Pushes(<<FALSE>>)
    ELSE Pushes(<<IsAlive(id)>>)

l_getPos_result(id) ==
    IF g_registry = "nullptr" THEN push3zeros
    ELSE IF ~IsAlive(id) THEN push3zeros
    ELSE IF /\ HasComponent("Player", id)
            /\ Component(Reg, "Player", id).player # "nullptr"
    THEN [vals |-> Push3("player.body.position"),
          fault |-> GetComponentFault(Reg, "Player", id)]
    ELSE IF HasComponent("Transform", id)
    THEN [vals |-> Push3(Component(Reg, "Transform", id).position),
          fault |-> Then(PlayerFault(Reg, id),
                         GetComponentFault(Reg, "Transform", id))]
    ELSE [push3zeros EXCEPT !.fault = PlayerFault(Reg, id)]

l_getVelocity_result(id) ==
    IF g_registry = "nullptr" THEN push3zeros
    ELSE IF IsAlive(id) /\ HasComponent("Velocity", id)
    THEN [vals |-> Push3(Component(Reg, "Velocity", id).linear),
          fault |-> GetComponentFault(Reg, "Velocity", id)]
    ELSE push3zeros

l_getTag_result(id) ==
    IF g_registry = "nullptr" THEN Pushes(<<"">>)
    ELSE IF IsAlive(id) /\ HasComponent("Tag", id)
    THEN [vals |-> <<Component(Reg, "Tag", id).name>>,
          fault |-> GetComponentFault(Reg, "Tag", id)]
    ELSE Pushes(<<"">>)

l_getHealth_result(id) ==
    IF g_registry = "nullptr" THEN Pushes(<<0, 0>>)
    ELSE IF IsAlive(id) /\ HasComponent("Health", id)
    THEN [vals |-> <<Component(Reg, "Health", id).current,
                     Component(Reg, "Health", id).max>>,
          fault |-> GetComponentFault(Reg, "Health", id)]
    ELSE Pushes(<<0, 0>>)

l_isDead_result(id) ==
    IF g_registry = "nullptr" THEN Pushes(<<FALSE>>)
    ELSE IF IsAlive(id) /\ HasComponent("Health", id)
    THEN [vals |-> <<isDead(Component(Reg, "Health", id))>>,
          fault |-> GetComponentFault(Reg, "Health", id)]
    ELSE Pushes(<<FALSE>>)

l_getLifetime_result(id) ==
    IF g_registry = "nullptr" THEN Pushes(<<0>>)
    ELSE IF IsAlive(id) /\ HasComponent("Lifetime", id)
    THEN [vals |-> <<Component(Reg, "Lifetime", id).remaining>>,
          fault |-> GetComponentFault(Reg, "Lifetime", id)]
    ELSE Pushes(<<0>>)

l_hasPlayer_result(id) ==
    IF g_registry = "nullptr" THEN Pushes(<<FALSE>>)
    ELSE Pushes(<<IsAlive(id) /\ HasComponent("Player", id)>>)

l_isAlive(id) == Returns(l_isAlive_result(id))
l_getPos(id) == Returns(l_getPos_result(id))
l_getVelocity(id) == Returns(l_getVelocity_result(id))
l_getTag(id) == Returns(l_getTag_result(id))
l_getHealth(id) == Returns(l_getHealth_result(id))
l_isDead(id) == Returns(l_isDead_result(id))
l_getLifetime(id) == Returns(l_getLifetime_result(id))
l_hasPlayer(id) == Returns(l_hasPlayer_result(id))

\* setECSRegistry(reg)
setECSRegistry(reg) ==
    /\ Running /\ TopLevel
    /\ g_registry' = reg
    /\ UNCHANGED <<generations, freeList, alive, pools, q, fault, aborted,
                   issued, destroyed, owned, g_ecsPlayer, toDestroy, frame, dt, next>>

\* setECSLocalPlayer(p)
setECSLocalPlayer(p) ==
    /\ Running /\ TopLevel
    /\ g_ecsPlayer' = p
    /\ UNCHANGED <<generations, freeList, alive, pools, q, fault, aborted,
                   issued, destroyed, owned, g_registry, toDestroy, frame, dt,
                   next>>

\* ScriptedScene::Init: setECSRegistry(&m_registry); setECSLocalPlayer(&m_player)
SceneInit ==
    /\ Running /\ TopLevel
    /\ g_registry' = "m_registry"
    /\ g_ecsPlayer' = "m_player"
    /\ UNCHANGED <<generations, freeList, alive, pools, q, fault, aborted,
                   issued, destroyed, owned, toDestroy, frame, dt, next>>

\* ScriptedScene::Unload: m_registry.Clear(), then both pointers are nulled
Unload ==
    /\ Running /\ TopLevel
    /\ SetReg(ClearOp(Reg))
    /\ destroyed' = {}
    /\ owned' = {}
    /\ g_registry' = "nullptr"
    /\ g_ecsPlayer' = "nullptr"
    /\ UNCHANGED <<q, fault, aborted, issued, toDestroy, frame, dt, next>>

\* The mutating bindings, called with any arguments.
Mutator ==
    \/ \E id \in IdInputs : l_destroy(id)
    \/ \E id \in IdInputs, v \in VecInputs : l_setPos(id, v)
    \/ \E id \in IdInputs, v \in VecInputs : l_setScale(id, v)
    \/ \E id \in IdInputs, v \in VecInputs : l_setVelocity(id, v)
    \/ \E id \in IdInputs, name \in NameInputs : l_setTag(id, name)
    \/ \E id \in IdInputs, maxHp \in HpInputs : l_addHealth(id, maxHp)
    \/ \E id \in IdInputs, amt \in HpInputs : l_damage(id, amt)
    \/ \E id \in IdInputs, amt \in HpInputs : l_heal(id, amt)
    \/ \E id \in IdInputs, sec \in SecondsInputs : l_setLifetime(id, sec)
    \/ \E id \in IdInputs, bhop \in BOOLEAN : l_addPlayer(id, bhop)
    \/ \E id \in IdInputs : l_removePlayer(id)
    \/ \E id \in IdInputs, enabled \in BOOLEAN : l_setPlayerBhop(id, enabled)

\* The reading bindings.
Reader ==
    \/ \E id \in IdInputs : l_isAlive(id)
    \/ \E id \in IdInputs : l_getPos(id)
    \/ \E id \in IdInputs : l_getVelocity(id)
    \/ \E id \in IdInputs : l_getTag(id)
    \/ \E id \in IdInputs : l_getHealth(id)
    \/ \E id \in IdInputs : l_isDead(id)
    \/ \E id \in IdInputs : l_getLifetime(id)
    \/ \E id \in IdInputs : l_hasPlayer(id)

\* A script calls the bindings in any order while scenes are set up and
\* torn down.
NextBridge ==
    \/ SceneInit
    \/ Unload
    \/ \E reg \in {"nullptr", "m_registry"} : setECSRegistry(reg)
    \/ \E p \in {"nullptr", "m_player"} : setECSLocalPlayer(p)
    \/ l_create
    \/ Mutator
    \/ Reader

SpecBridge == Init /\ [][NextBridge]_vars

-----------------------------------------------------------------------------
(* The script bindings: C21, C22 *)

\* A step of a mutating binding called with the handle id.
MutatorWith(id) ==
    \/ l_destroy(id)
    \/ \E v \in VecInputs : l_setPos(id, v)
    \/ \E v \in VecInputs : l_setScale(id, v)
    \/ \E v \in VecInputs : l_setVelocity(id, v)
    \/ \E name \in NameInputs : l_setTag(id, name)
    \/ \E maxHp \in HpInputs : l_addHealth(id, maxHp)
    \/ \E amt \in HpInputs : l_damage(id, amt)
    \/ \E amt \in HpInputs : l_heal(id, amt)
    \/ \E sec \in SecondsInputs : l_setLifetime(id, sec)
    \/ \E bhop \in BOOLEAN : l_addPlayer(id, bhop)
    \/ l_removePlayer(id)
    \/ \E enabled \in BOOLEAN : l_setPlayerBhop(id, enabled)

\* C21: a mutating binding called with a handle that is not alive trips no
\* assertion and leaves the Registry as it was, the components of the entity
\* in the handle's slot included.
C21_StaleBindingIsNoOp ==
    [][\A id \in IdInputs :
          registryReady /\ ~IsAlive(id) /\ MutatorWith(id)
          => Reg' = Reg /\ fault' = fault]_vars

\* What each reading binding pushes when there is nothing to read.
ReadersDefault(id) ==
    /\ l_isAlive_result(id) = Pushes(<<FALSE>>)
    /\ l_hasPlayer_result(id) = Pushes(<<FALSE>>)
    /\ l_isDead_result(id) = Pushes(<<FALSE>>)
    /\ l_getPos_result(id) = Pushes(<<0, 0, 0>>)
    /\ l_getVelocity_result(id) = Pushes(<<0, 0, 0>>)
    /\ l_getTag_result(id) = Pushes(<<"">>)
    /\ l_getHealth_result(id) = Pushes(<<0, 0>>)
    /\ l_getLifetime_result(id) = Pushes(<<0>>)

\* C22: while g_registry is null, ecs.create returns INVALID_ENTITY, the
\* reading bindings push false, zeros and the empty string, and no binding
\* changes the Registry or trips an assertion.
C22_NullRegistry ==
    /\ [](g_registry = "nullptr"
          => /\ l_create_id = INVALID_ENTITY
             /\ \A id \in IdInputs : ReadersDefault(id))
    /\ [][g_registry = "nullptr" /\ (l_create \/ Mutator \/ Reader)
          => Reg' = Reg /\ fault' = fault /\ issued' = issued]_vars

\* g_registry has been set to null while m_registry holds an entity with a
\* component of every type, and the script holds a stale handle too.
C22_Witness ==
    /\ g_registry = "nullptr"
    /\ fault = "none"
    /\ Len(alive) = 1
    /\ DOMAIN pools = {"Transform", "Velocity", "Tag", "Health", "Lifetime", "Player"}
    /\ \A T \in DOMAIN pools : Size(pools[T]) = 1
    /\ Cardinality(issued) = 2

-----------------------------------------------------------------------------
(* ScriptedScene::Update: the ECS tick of a frame, then the script's       *)
(* update callback.                                                        *)

\* Bounds of the ticked scene: slots, handles ecs.create hands out.
MaxDriverSlots == 2
MaxDriverHandles == 3

\* GetFrameTime()
FrameTimes == {0, 1}

\* m_player.body.position after m_player.Update()
BodyPositions == {3}

\* The call of fn the Each in progress is making: id and the component.
Visiting == q.log[Len(q.log)]

\* lt.remaining < 0.0f
Expired_Strict(remaining) == remaining < 0

\* lt.remaining <= 0.0f
Expired(remaining) == remaining <= 0

\* m_player.Update(); dt = GetFrameTime(); Each<PlayerComponent> up to its loop
UpdateBegin(t) ==
    /\ Running /\ TopLevel
    /\ frame = "idle"
    /\ frame' = "Each<PlayerComponent>"
    /\ dt' = t
    /\ LET snap == EachSnapshot(Reg, "Player")
       IN  StartQuery("Each", <<"Player">>, snap.src, snap.idxList)
    /\ UNCHANGED <<generations, freeList, alive, pools, fault, aborted,
                   issued, destroyed, owned, g_registry, g_ecsPlayer,
                   toDestroy, next>>

\* The visitor of an Each of Update has made its calls, res.reg being the
\* Registry after them and res.fault the first assertion that was false,
\* and returns.
VisitorDone(res) ==
    LET returned == [q EXCEPT !.inCallback = FALSE, !.pos = @ + 1]
    IN  /\ IF res.fault # "none"
           THEN /\ fault' = res.fault
                /\ \/ /\ aborted' = TRUE
                      /\ UNCHANGED <<generations, freeList, alive, pools,
                                     owned, q>>
                   \/ /\ aborted' = FALSE
                      /\ SetReg(res.reg)
                      /\ owned' = OwnedIn(res.reg)
                      /\ q' = returned
           ELSE /\ SetReg(res.reg)
                /\ owned' = OwnedIn(res.reg)
                /\ q' = returned
                /\ UNCHANGED <<fault, aborted>>
        /\ UNCHANGED <<issued, destroyed, g_registry, g_ecsPlayer, frame, dt,
                       next>>

\* The visitor of Each<PlayerComponent>: the entity's TransformComponent,
\* if it has one, takes the position of the engine player.
PlayerVisitor(pos) ==
    /\ Running /\ InVisitor
    /\ frame = "Each<PlayerComponent>"
    /\ LET id == Visiting.id
           pc == Visiting.vals[1]
       IN  IF pc.player = "nullptr" THEN VisitorDone(NoFault(Reg))
           ELSE IF HasComponent("Transform", id)
           THEN VisitorDone(GetWrite(Reg, "Transform", id, "position", pos))
           ELSE VisitorDone(NoFault(Reg))
    /\ UNCHANGED toDestroy

\* Each<PlayerComponent> returns; std::vector<EntityId> toDestroy;
\* Each<LifetimeComponent> up to its loop
LifetimeBegin ==
    /\ Running
    /\ frame = "Each<PlayerComponent>"
    /\ q.kind # "none" /\ ~q.inCallback /\ q.pos = Len(IdxList)
    /\ frame' = "Each<LifetimeComponent>"
    /\ toDestroy' = <<>>
    /\ next' = 0
    /\ LET snap == EachSnapshot(Reg, "Lifetime")
       IN  StartQuery("Each", <<"Lifetime">>, snap.src, snap.idxList)
    /\ UNCHANGED <<generations, freeList, alive, pools, fault, aborted,
                   issued, destroyed, owned, g_registry, g_ecsPlayer, dt>>

\* The visitor of Each<LifetimeComponent>: lt.remaining -= dt, and the
\* handle is collected if the lifetime has expired.
LifetimeVisitor ==
    /\ Running /\ InVisitor
    /\ frame = "Each<LifetimeComponent>"
    /\ LET id == Visiting.id
           lt == Visiting.vals[1]
           remaining == lt.remaining - dt
       IN  /\ VisitorDone(NoFault(Write(Reg, "Lifetime", id, "remaining",
                                        remaining)))
           /\ toDestroy' = IF Expired(remaining) THEN Append(toDestroy, id)
                           ELSE toDestroy

\* Each<LifetimeComponent> returns; the for loop over toDestroy begins.
LifetimeEnd ==
    /\ Running
    /\ frame = "Each<LifetimeComponent>"
    /\ q.kind # "none" /\ ~q.inCallback /\ q.pos = Len(IdxList)
    /\ frame' = "for toDestroy"
    /\ q' = Idle
    /\ UNCHANGED <<generations, freeList, alive, pools, fault, aborted,
                   issued, destroyed, owned, g_registry, g_ecsPlayer,
                   toDestroy, dt, next>>

\* One pass of for (auto id : toDestroy) m_registry.DestroyEntity(id)
DestroyCollected ==
    /\ Running /\ TopLevel
    /\ frame = "for toDestroy"
    /\ next < Len(toDestroy)
    /\ LET id == toDestroy[next + 1]
           r == DestroyEntityOp(Reg, id)
       IN  /\ SetReg(r)
           /\ owned' = OwnedIn(r)
           /\ destroyed' = IF IsAlive(id) THEN destroyed \cup {id}
                           ELSE destroyed
    /\ next' = next + 1
    /\ UNCHANGED <<q, fault, aborted, issued, g_registry, g_ecsPlayer,
                   toDestroy, frame, dt>>

\* The for loop is over; m_script->update() begins.
ScriptUpdateBegin ==
    /\ Running /\ TopLevel
    /\ frame = "for toDestroy"
    /\ next = Len(toDestroy)
    /\ frame' = "m_script->update()"
    /\ UNCHANGED <<generations, freeList, alive, pools, q, fault, aborted,
                   issued, destroyed, owned, g_registry, g_ecsPlayer,
                   toDestroy, dt, next>>

\* m_script->update() has returned, or m_script is null: Update returns.
UpdateReturn ==
    /\ Running /\ TopLevel
    /\ frame = "m_script->update()"
    /\ frame' = "idle"
    /\ UNCHANGED <<generations, freeList, alive, pools, q, fault, aborted,
                   issued, destroyed, owned, g_registry, g_ecsPlayer,
                   toDestroy, dt, next>>

\* The script is running: one of its callbacks outside Update, or update().
InScript == frame \in {"idle", "m_script->update()"}

\* A scene is set up; its script creates entities, gives them lifetimes,
\* players and positions and destroys them, in update() and in its other
\* callbacks; the scene is updated frame after frame.
NextDriver ==
    \/ frame = "idle" /\ SceneInit
    \/ frame = "idle" /\ Unload
    \/ \E t \in FrameTimes : UpdateBegin(t)
    \/ EachStep
    \/ \E pos \in BodyPositions : PlayerVisitor(pos)
    \/ LifetimeBegin
    \/ LifetimeVisitor
    \/ LifetimeEnd
    \/ DestroyCollected
    \/ ScriptUpdateBegin
    \/ UpdateReturn
    \/ InScript /\ l_createWithin(MaxDriverSlots, MaxDriverHandles)
    \/ InScript /\ \E id \in IdInputs : l_destroy(id)
    \/ InScript /\ \E id \in IdInputs, sec \in SecondsInputs : l_setLifetime(id, sec)
    \/ InScript /\ \E id \in IdInputs : l_addPlayer(id, FALSE)
    \/ InScript /\ \E id \in IdInputs : l_removePlayer(id)

SpecDriver == Init /\ [][NextDriver]_vars

-----------------------------------------------------------------------------
(* The per-frame driver: C23 *)

InEach == frame \in {"Each<PlayerComponent>", "Each<LifetimeComponent>"}
InUpdate == frame # "idle"
ScriptUpdateStarts == frame = "for toDestroy" /\ frame' = "m_script->update()"
UpdateReturns == frame = "m_script->update()" /\ frame' = "idle"

\* The handles of live entities whose LifetimeComponent has run out.
ExpiredAlive ==
    {e \in issued \cup Range(alive) :
        /\ IsAlive(e)
        /\ HasComponent("Lifetime", e)
        /\ Component(Reg, "Lifetime", e).remaining <= 0}

\* While an Each of Update is in progress no entity is destroyed.
NoDestroyDuringEach ==
    [][InEach => /\ alive' = alive
                 /\ generations' = generations
                 /\ freeList' = freeList]_vars

\* Handles are collected by the visitor of Each<LifetimeComponent> only,
\* and each is the handle of a visited entity whose lifetime has run out.
CollectedDuringEach ==
    [][toDestroy' # toDestroy /\ toDestroy' # <<>> =>
          /\ frame = "Each<LifetimeComponent>" /\ InVisitor
          /\ toDestroy' = Append(toDestroy, Visiting.id)
          /\ (Visiting.id \in ExpiredAlive)']_vars

\* Update destroys an entity only in its for loop, after
\* Each<LifetimeComponent> has returned and before the script update, and
\* only a collected one; when the script update starts every collected
\* handle has been destroyed.
DestroyedAfterEach ==
    /\ [][(/\ InUpdate /\ frame # "m_script->update()"
           /\ alive' # alive \/ generations' # generations) =>
             /\ frame = "for toDestroy" /\ frame' = frame
             /\ q.kind = "none"
             /\ IsAlive(toDestroy[next + 1])
             /\ Reg' = DestroyEntityOp(Reg, toDestroy[next + 1])]_vars
    /\ [][ScriptUpdateStarts =>
             \A k \in DOMAIN toDestroy : ~IsAlive(toDestroy[k])]_vars

\* C23 as claimed: in ScriptedScene::Update no entity is destroyed while an
\* Each is in progress, the handles of expired entities are collected during
\* Each<LifetimeComponent> and destroyed after it has returned and before the
\* script update runs, and when Update returns no live entity has a
\* LifetimeComponent that has expired.
C23_DriverOrdering_AfterUpdate ==
    /\ NoDestroyDuringEach
    /\ CollectedDuringEach
    /\ DestroyedAfterEach
    /\ [][UpdateReturns => (ExpiredAlive = {})']_vars

\* C23, amended: in ScriptedScene::Update no entity is destroyed while an
\* Each is in progress, the handles of expired entities are collected during
\* Each<LifetimeComponent> and destroyed after it has returned and before the
\* script update runs, and when the script update starts no live entity has
\* a LifetimeComponent that has expired.
C23_DriverOrdering ==
    /\ NoDestroyDuringEach
    /\ CollectedDuringEach
    /\ DestroyedAfterEach
    /\ [][ScriptUpdateStarts => (ExpiredAlive = {})']_vars

\* The script update starts after a tick that destroyed an expired entity
\* and left alive one whose lifetime has not run out.
C23_Witness ==
    /\ frame = "m_script->update()"
    /\ fault = "none"
    /\ Len(toDestroy) = 1 /\ next = 1
    /\ toDestroy[1] \in destroyed
    /\ \E e \in Range(alive) :
          /\ HasComponent("Lifetime", e)
          /\ Component(Reg, "Lifetime", e).remaining > 0

=============================================================================
